---- MODULE Spec2Model ----
(***************************************************************************)
(* Model of the header / slug utilities of MarkdownViewer                  *)
(* (src/src/utils/slugify.ts).                                             *)
(*                                                                         *)
(* A JavaScript string is modelled as a sequence of one-character strings. *)
(***************************************************************************)
EXTENDS Naturals, Integers, Sequences, FiniteSets, Bags, TLC

VARIABLES
    pc,                 \* position of the call being modelled
    text,               \* slugify / generateUniqueSlug: argument `text`
    slug,               \* slugify(text)
    slugAgain,          \* slugify(slugify(text))
    existingIds,        \* generateUniqueSlug: the caller's Set<string>
    idsBefore,          \* the same set as it was when the call was made
    uniqueSlug,         \* generateUniqueSlug: returned string
    content,            \* precomputeHeaderIds / extractMarkdownHeaders: argument
    lines,              \* content.split('\n')
    i,                  \* loop index of the line scan (1-based)
    inFencedCodeBlock,  \* extractMarkdownHeaders local
    fencePattern,       \* extractMarkdownHeaders local ("", Backtick or "~")
    headers,            \* extractMarkdownHeaders local: pushed header texts
    headerLine,         \* for each pushed header, the index of its line
    usedIds,            \* precomputeHeaderIds local Set
    headerIds,          \* precomputeHeaderIds local Map (text -> id)
    producedIds,        \* the id generateUniqueSlug returned for each header
    k,                  \* forEach index over headers (1-based)
    flatItems,          \* buildNestedTOC: argument (records id, text, level)
    children,           \* for each TOCItem created so far, its children array
    result,             \* buildNestedTOC local: the root TOCItems
    stack,              \* buildNestedTOC local
    item,               \* position of the for loop over flatItems (1-based)
    flattened,          \* flattenTOC(result)
    viewMode,           \* ContentArea prop: "viewer", "editor" or "split"
    viewerMounted,      \* viewerRef.current is not null
    isScrollingSync,    \* isScrollingSyncRef.current
    pendingResets,      \* timers scheduled to reset isScrollingSyncRef
    viewerScroll,       \* id of the element the viewer was last scrolled to
    cursor,             \* cursorPosition of the latest cursor event
    resolved,           \* the element id the latest cursor event resolved to
    scrollInvoked,      \* the latest cursor event called scrollIntoView
    errorRaised,        \* the latest cursor event ended with an exception
    source,             \* parseMarkdown: argument `content`
    tokens,             \* the token list (parseMarkdown's result)
    filteredTokens,     \* filterOverlappingTokens(tokens)
    issues,             \* validateMarkdown: the list it returns
    highlighted,        \* getHighlightedContent: the string it returns
    currentFile,        \* AppState.currentFile (NoFile stands for null)
    inFlight,           \* the saveFile calls awaiting fileService.saveFile
    autoSave,           \* state and ref of the useAutoSave hook
    now,                \* the Date of the latest step that read the clock
    editorMounted,      \* editorRef.current is not null
    editorScroll,       \* scrollTop of the editor's scroll element
    viewerEvent         \* what the latest viewer scroll event did

slugVars == <<text, slug, slugAgain, existingIds, idsBefore, uniqueSlug>>
scanVars == <<content, lines, i, inFencedCodeBlock, fencePattern, headers,
              headerLine, usedIds, headerIds, producedIds, k>>
tocVars == <<flatItems, children, result, stack, item, flattened>>
syncVars == <<viewMode, viewerMounted, isScrollingSync, pendingResets,
              viewerScroll, cursor, resolved, scrollInvoked, errorRaised>>
tokVars == <<source, tokens, filteredTokens>>
extVars == <<tocVars, syncVars, tokVars>>
outVars == <<issues, highlighted>>
fileVars == <<currentFile, inFlight, autoSave, now>>
scrollVars == <<editorMounted, editorScroll, viewerEvent>>
appVars == <<outVars, fileVars, scrollVars>>
vars == <<pc, slugVars, scanVars, extVars, appVars>>

(***************************************************************************)
(* Bounds                                                                  *)
(***************************************************************************)
MaxTextLen == 5      \* longest text given to slugify
MaxShortLen == 3     \* longest text given to generateUniqueSlug
MaxSuffix == 3       \* largest numbered suffix present in a caller's set
MaxLines == 4        \* most lines of a scanned document
MaxIdLines == 4      \* most lines of a document of header lines

(***************************************************************************)
(* Characters                                                              *)
(***************************************************************************)
Upper == {"A"}
Lower == {"a", "d", "e", "g", "h", "i", "n"}
Digit == {"0", "1", "2", "3", "4", "5", "6", "7", "8", "9"}
Whitespace == {" ", "\t"}          \* members of JavaScript's \s used here
Alphabet == {"a", "A", "2", " ", "\t", "-", "&"}
\* the character U+0060, which a string literal of this language cannot hold
Backtick == "BACKTICK"

ToLowerChar(c) == IF c = "A" THEN "a" ELSE c

DigitChar(d) ==
    CASE d = 0 -> "0" [] d = 1 -> "1" [] d = 2 -> "2" [] d = 3 -> "3"
      [] d = 4 -> "4" [] d = 5 -> "5" [] d = 6 -> "6" [] d = 7 -> "7"
      [] d = 8 -> "8" [] d = 9 -> "9"

\* `${counter}`: decimal representation of a positive integer
RECURSIVE NumberToString(_)
NumberToString(n) ==
    IF n < 10 THEN <<DigitChar(n)>>
    ELSE NumberToString(n \div 10) \o <<DigitChar(n % 10)>>

\* all strings over S of length at most n
StringsUpTo(S, n) == UNION {[1..m -> S] : m \in 0..n}

(***************************************************************************)
(* String helpers (String.prototype methods)                               *)
(***************************************************************************)
RECURSIVE TrimStart(_)
TrimStart(s) ==
    IF s # <<>> /\ Head(s) \in Whitespace THEN TrimStart(Tail(s)) ELSE s

RECURSIVE TrimEnd(_)
TrimEnd(s) ==
    IF s # <<>> /\ s[Len(s)] \in Whitespace
    THEN TrimEnd(SubSeq(s, 1, Len(s) - 1)) ELSE s

\* String.prototype.trim
Trim(s) == TrimEnd(TrimStart(s))

\* s.startsWith(p)
StartsWith(s, p) == Len(s) >= Len(p) /\ SubSeq(s, 1, Len(p)) = p

\* c.repeat(n) for a one-character string c
Repeat(c, n) == [j \in 1..n |-> c]

MapSeq(f(_), s) == [j \in 1..Len(s) |-> f(s[j])]

(***************************************************************************)
(* slugify                                                                 *)
(***************************************************************************)
IsAlnum(c) == c \in Upper \cup Lower \cup Digit

\* .replace(/[^a-zA-Z0-9\s]/g, '')
RemoveNonAlnum(s) == SelectSeq(s, LAMBDA c : IsAlnum(c) \/ c \in Whitespace)

\* a variant that also keeps '-' (the character class [^a-zA-Z0-9\s-])
RemoveNonAlnumKeepHyphen(s) ==
    SelectSeq(s, LAMBDA c : IsAlnum(c) \/ c \in Whitespace \/ c = "-")

\* .replace(/\s+/g, ' ')
RECURSIVE CollapseWhitespace(_)
CollapseWhitespace(s) ==
    IF s = <<>> THEN <<>>
    ELSE IF Head(s) \in Whitespace
         THEN <<" ">> \o CollapseWhitespace(TrimStart(s))
         ELSE <<Head(s)>> \o CollapseWhitespace(Tail(s))

\* .replace(/\s/g, '-')
SpacesToHyphens(s) == MapSeq(LAMBDA c : IF c \in Whitespace THEN "-" ELSE c, s)

\* .toLowerCase()
ToLowerCase(s) == MapSeq(ToLowerChar, s)

slugifyKeepHyphen(t) ==
    ToLowerCase(SpacesToHyphens(Trim(CollapseWhitespace(RemoveNonAlnumKeepHyphen(t)))))

slugifyNoCollapse(t) ==
    ToLowerCase(SpacesToHyphens(Trim(RemoveNonAlnum(t))))

slugify(t) ==
    ToLowerCase(SpacesToHyphens(Trim(CollapseWhitespace(RemoveNonAlnum(t)))))

(***************************************************************************)
(* Calls of slugify                                                        *)
(***************************************************************************)
Nothing == <<"?">>     \* stands for "not computed yet"; never a slug

CallSlugify ==
    /\ pc = "slugify"
    /\ slug' = slugify(text)
    /\ pc' = "slugified"
    /\ UNCHANGED <<extVars, appVars>>
    /\ UNCHANGED <<text, slugAgain, existingIds, idsBefore, uniqueSlug, scanVars>>

CallSlugifyAgain ==
    /\ pc = "slugified"
    /\ slugAgain' = slugify(slug)
    /\ pc' = "reslugified"
    /\ UNCHANGED <<extVars, appVars>>
    /\ UNCHANGED <<text, slug, existingIds, idsBefore, uniqueSlug, scanVars>>

\* nothing of the table of contents is in use
TocIdle ==
    /\ flatItems = <<>>
    /\ children = <<>>
    /\ result = <<>>
    /\ stack = <<>>
    /\ item = 0
    /\ flattened = <<>>

\* no event of the editor/viewer synchronisation has happened
SyncIdle ==
    /\ viewMode = "viewer"
    /\ viewerMounted = FALSE
    /\ isScrollingSync = FALSE
    /\ pendingResets = 0
    /\ viewerScroll = Nothing
    /\ cursor = 0
    /\ resolved = Nothing
    /\ scrollInvoked = FALSE
    /\ errorRaised = FALSE

\* the tokenizer has not been called
TokIdle ==
    /\ source = <<>>
    /\ tokens = <<>>
    /\ filteredTokens = <<>>

ExtIdle == TocIdle /\ SyncIdle /\ TokIdle

\* neither validateMarkdown nor getHighlightedContent has returned
OutIdle ==
    /\ issues = <<>>
    /\ highlighted = <<>>

\* AppState.currentFile when it is null
NoFile ==
    [open |-> FALSE, id |-> 0, content |-> "", originalContent |-> "",
     hasUnsavedChanges |-> FALSE, lastSaveTime |-> 0, fileHandle |-> FALSE,
     isLoading |-> FALSE, error |-> FALSE]

\* no file has been opened and the auto-save hook is as it was mounted
FileIdle ==
    /\ currentFile = NoFile
    /\ inFlight = EmptyBag
    /\ autoSave = [isAutoSaving |-> FALSE, lastSaved |-> 0,
                   hasUnsavedChanges |-> FALSE, lastContentRef |-> ""]
    /\ now = 1

\* the viewer has not been scrolled
ScrollIdle ==
    /\ editorMounted = FALSE
    /\ editorScroll = <<0, 1>>
    /\ viewerEvent = "none"

AppIdle == OutIdle /\ FileIdle /\ ScrollIdle

ScanIdle ==
    /\ content = <<>>
    /\ lines = <<>>
    /\ i = 0
    /\ inFencedCodeBlock = FALSE
    /\ fencePattern = ""
    /\ headers = <<>>
    /\ headerLine = <<>>
    /\ usedIds = {}
    /\ headerIds = <<>>
    /\ producedIds = <<>>
    /\ k = 0

InitSlugify ==
    /\ AppIdle
    /\ pc = "slugify"
    /\ text \in StringsUpTo(Alphabet, MaxTextLen)
    /\ slug = Nothing
    /\ slugAgain = Nothing
    /\ existingIds = {}
    /\ idsBefore = {}
    /\ uniqueSlug = Nothing
    /\ ScanIdle
    /\ ExtIdle

NextSlugify == CallSlugify \/ CallSlugifyAgain

SpecSlugify == InitSlugify /\ [][NextSlugify]_vars

(***************************************************************************)
(* generateUniqueSlug                                                      *)
(***************************************************************************)
heading == <<"h", "e", "a", "d", "i", "n", "g">>

\* slugify(text) || 'heading'
BaseSlug(t) == IF slugify(t) = <<>> THEN heading ELSE slugify(t)

\* `${baseSlug}-${counter}`
Suffixed(base, counter) == base \o <<"-">> \o NumberToString(counter)

\* the while loop: first counter, counting up, whose slug is not in ids
RECURSIVE FirstFreeCounter(_, _, _)
FirstFreeCounter(base, counter, ids) ==
    IF Suffixed(base, counter) \in ids
    THEN FirstFreeCounter(base, counter + 1, ids)
    ELSE counter

\* variants: the counter starts at 1; the set is not consulted at all; the
\* free base slug is returned without being added
generateUniqueSlugFromOne(t, ids) ==
    LET base == BaseSlug(t)
        id == IF base \notin ids THEN base
              ELSE Suffixed(base, FirstFreeCounter(base, 1, ids))
    IN  [id |-> id, ids |-> ids \cup {id}]

generateUniqueSlugNoCheck(t, ids) ==
    [id |-> BaseSlug(t), ids |-> ids \cup {BaseSlug(t)}]

generateUniqueSlugNoAdd(t, ids) ==
    LET base == BaseSlug(t)
    IN  IF base \notin ids THEN [id |-> base, ids |-> ids]
        ELSE LET id == Suffixed(base, FirstFreeCounter(base, 2, ids))
             IN  [id |-> id, ids |-> ids \cup {id}]

\* returns the slug and the set after the call (the set is mutated in place)
generateUniqueSlug(t, ids) ==
    LET base == BaseSlug(t)
        id == IF base \notin ids THEN base
              ELSE Suffixed(base, FirstFreeCounter(base, 2, ids))
    IN  [id |-> id, ids |-> ids \cup {id}]

CallGenerateUniqueSlug ==
    /\ pc = "generate"
    /\ LET r == generateUniqueSlug(text, existingIds)
       IN  /\ uniqueSlug' = r.id
           /\ existingIds' = r.ids
    /\ idsBefore' = existingIds
    /\ pc' = "generated"
    /\ UNCHANGED <<extVars, appVars>>
    /\ UNCHANGED <<text, slug, slugAgain, scanVars>>

\* slugs a caller's set may already hold: bases and their numbered forms
SlugPool ==
    LET bases == {<<"a">>, heading}
    IN  bases \cup {Suffixed(b, n) : b \in bases, n \in 2..MaxSuffix}

InitUnique ==
    /\ AppIdle
    /\ pc = "generate"
    /\ text \in StringsUpTo(Alphabet, MaxShortLen)
    /\ slug = Nothing
    /\ slugAgain = Nothing
    /\ existingIds \in SUBSET SlugPool
    /\ idsBefore = existingIds
    /\ uniqueSlug = Nothing
    /\ ScanIdle
    /\ ExtIdle

NextUnique == CallGenerateUniqueSlug

SpecUnique == InitUnique /\ [][NextUnique]_vars

(***************************************************************************)
(* extractMarkdownHeaders: regular expressions and helpers                 *)
(***************************************************************************)
\* content.split('\n')
RECURSIVE Split(_)
Split(s) ==
    IF \A j \in 1..Len(s) : s[j] # "\n" THEN <<s>>
    ELSE LET p == CHOOSE j \in 1..Len(s) :
                      s[j] = "\n" /\ \A m \in 1..(j - 1) : s[m] # "\n"
         IN  <<SubSeq(s, 1, p - 1)>> \o Split(SubSeq(s, p + 1, Len(s)))

\* number of leading characters of s, from position `from`, that are in S
RECURSIVE RunLength(_, _, _)
RunLength(s, from, S) ==
    IF from <= Len(s) /\ s[from] \in S THEN 1 + RunLength(s, from + 1, S) ELSE 0

\* trimmedLine.match(/^(`{3,}|~{3,})/): fenceMatch[1][0], or "" for no match
FenceCharBacktickOnly(trimmedLine) ==
    IF RunLength(trimmedLine, 1, {Backtick}) >= 3 THEN Backtick ELSE ""

FenceChar(trimmedLine) ==
    IF RunLength(trimmedLine, 1, {Backtick}) >= 3 THEN Backtick
    ELSE IF RunLength(trimmedLine, 1, {"~"}) >= 3 THEN "~"
    ELSE ""

\* trimmedLine.startsWith(fencePattern.repeat(3))
ClosesFenceAnyChar(trimmedLine, pattern) == TRUE

ClosesFence(trimmedLine, pattern) == StartsWith(trimmedLine, Repeat(pattern, 3))

\* line.match(/^(\s{4,}|\t+)/)
IsIndentedCode(line) ==
    \/ RunLength(line, 1, Whitespace) >= 4
    \/ RunLength(line, 1, {"\t"}) >= 1

\* trimmedLine.match(/^(#{1,6})\s+(.+)$/) with `maxHashes` for the 6:
\* the match object, or matched = FALSE for null
HeaderMatchUpTo(trimmedLine, maxHashes) ==
    LET n == RunLength(trimmedLine, 1, {"#"})
        w == RunLength(trimmedLine, n + 1, Whitespace)
        len == Len(trimmedLine)
    IN  IF n >= 1 /\ n <= maxHashes /\ w >= 1 /\ len >= n + 2
        THEN [matched |-> TRUE,
              index |-> 0,
              level |-> n,
              \* \s+ is greedy and gives one character back when nothing is left
              group2 |-> IF len > n + w
                         THEN SubSeq(trimmedLine, n + w + 1, len)
                         ELSE SubSeq(trimmedLine, n + w, len)]
        ELSE [matched |-> FALSE, index |-> 0, level |-> 0, group2 |-> <<>>]

HeaderMatchAnyLevel(trimmedLine) == HeaderMatchUpTo(trimmedLine, Len(trimmedLine))

HeaderMatch(trimmedLine) == HeaderMatchUpTo(trimmedLine, 6)

\* headerText.match(/^`+$/)
OnlyBackticksNever(headerText) == FALSE

OnlyBackticks(headerText) ==
    headerText # <<>> /\ \A j \in 1..Len(headerText) : headerText[j] = Backtick

\* isInsideInlineCode: the while loop from index idx (1-based) on
RECURSIVE InlineCodeScan(_, _, _, _)
InlineCodeScan(line, position, idx, inInlineCode) ==
    IF idx - 1 < position /\ idx <= Len(line)
    THEN IF line[idx] = Backtick
         THEN LET backtickCount == RunLength(line, idx, {Backtick})
              IN  InlineCodeScan(line, position, idx + backtickCount,
                                 IF backtickCount = 1 THEN ~inInlineCode
                                 ELSE inInlineCode)
         ELSE InlineCodeScan(line, position, idx + 1, inInlineCode)
    ELSE inInlineCode

isInsideInlineCode(line, position) == InlineCodeScan(line, position, 1, FALSE)

\* one iteration of the for loop over lines: the locals after it, and
\* whether a header was pushed
ScanStep(line, inFence, pattern) ==
    LET trimmedLine == Trim(line)
        fence == FenceChar(trimmedLine)
        headerMatch == HeaderMatch(trimmedLine)
        headerText == Trim(headerMatch.group2)
        skip == [inFence |-> inFence, pattern |-> pattern,
                 push |-> FALSE, headerText |-> <<>>]
    IN  IF fence # ""
        THEN IF ~inFence
             THEN [skip EXCEPT !.inFence = TRUE, !.pattern = fence]
             ELSE IF ClosesFence(trimmedLine, pattern)
                  THEN [skip EXCEPT !.inFence = FALSE, !.pattern = ""]
                  ELSE skip
        ELSE IF inFence THEN skip
        ELSE IF IsIndentedCode(line) THEN skip
        ELSE IF /\ headerMatch.matched
                /\ ~OnlyBackticks(headerText)
                /\ ~isInsideInlineCode(line, headerMatch.index)
             THEN [skip EXCEPT !.push = TRUE, !.headerText = headerText]
             ELSE skip

(***************************************************************************)
(* precomputeHeaderIds and extractMarkdownHeaders, step by step            *)
(***************************************************************************)
\* Map.prototype.set
MapSet(map, key, value) ==
    [t \in (DOMAIN map) \cup {key} |-> IF t = key THEN value ELSE map[t]]

EmptyMap == <<>>

\* if (!content) return new Map()
ReturnEmptyMap ==
    /\ pc = "call"
    /\ content = <<>>
    /\ headerIds' = EmptyMap
    /\ pc' = "done"
    /\ UNCHANGED <<extVars, appVars>>
    /\ UNCHANGED <<slugVars, content, lines, i, inFencedCodeBlock, fencePattern,
                   headers, headerLine, usedIds, producedIds, k>>

\* extractMarkdownHeaders(content): split and initialise the locals
EnterExtract ==
    /\ pc = "call"
    /\ content # <<>>
    /\ lines' = Split(content)
    /\ headers' = <<>>
    /\ headerLine' = <<>>
    /\ inFencedCodeBlock' = FALSE
    /\ fencePattern' = ""
    /\ i' = 1
    /\ pc' = "scan"
    /\ UNCHANGED <<extVars, appVars>>
    /\ UNCHANGED <<slugVars, content, usedIds, headerIds, producedIds, k>>

\* one iteration of the for loop
ScanLine ==
    /\ pc = "scan"
    /\ i <= Len(lines)
    /\ LET r == ScanStep(lines[i], inFencedCodeBlock, fencePattern)
       IN  /\ inFencedCodeBlock' = r.inFence
           /\ fencePattern' = r.pattern
           /\ headers' = IF r.push THEN Append(headers, r.headerText) ELSE headers
           /\ headerLine' = IF r.push THEN Append(headerLine, i) ELSE headerLine
    /\ i' = i + 1
    /\ UNCHANGED <<extVars, appVars>>
    /\ UNCHANGED <<pc, slugVars, content, lines, usedIds, headerIds,
                   producedIds, k>>

\* return headers; new Map(), new Set()
ReturnHeaders ==
    /\ pc = "scan"
    /\ i > Len(lines)
    /\ headerIds' = EmptyMap
    /\ usedIds' = {}
    /\ producedIds' = <<>>
    /\ k' = 1
    /\ pc' = "ids"
    /\ UNCHANGED <<extVars, appVars>>
    /\ UNCHANGED <<slugVars, content, lines, i, inFencedCodeBlock, fencePattern,
                   headers, headerLine>>

\* one iteration of headers.forEach
AssignId ==
    /\ pc = "ids"
    /\ k <= Len(headers)
    /\ LET r == generateUniqueSlug(headers[k], usedIds)
       IN  /\ usedIds' = r.ids
           /\ headerIds' = MapSet(headerIds, headers[k], r.id)
           /\ producedIds' = Append(producedIds, r.id)
    /\ k' = k + 1
    /\ UNCHANGED <<extVars, appVars>>
    /\ UNCHANGED <<pc, slugVars, content, lines, i, inFencedCodeBlock,
                   fencePattern, headers, headerLine>>

\* return headerIds
ReturnHeaderIds ==
    /\ pc = "ids"
    /\ k > Len(headers)
    /\ pc' = "done"
    /\ UNCHANGED <<extVars, appVars>>
    /\ UNCHANGED <<slugVars, scanVars, appVars>>

SlugIdle ==
    /\ text = <<>>
    /\ slug = Nothing
    /\ slugAgain = Nothing
    /\ existingIds = {}
    /\ idsBefore = {}
    /\ uniqueSlug = Nothing

\* lines.join('\n')
RECURSIVE Join(_)
Join(ls) ==
    IF Len(ls) = 0 THEN <<>>
    ELSE IF Len(ls) = 1 THEN ls[1]
    ELSE ls[1] \o <<"\n">> \o Join(Tail(ls))

\* the lines a scanned document is made of
ScanLineSet ==
    { <<>>,                                           \* empty line
      <<"#", " ", "a">>,                              \* # a
      <<" ", "#", " ", " ", "A", " ">>,               \* indented by one space
      <<Backtick, Backtick, Backtick>>,               \* backtick fence
      <<"~", "~", "~">>,                              \* tilde fence
      <<" ", " ", " ", " ", Backtick, Backtick, Backtick>>,  \* indented fence
      <<" ", " ", " ", " ", "#", " ", "a">>,          \* header indented by 4
      <<"\t", "#", " ", "a">>,                        \* header behind a tab
      <<Backtick, "#", " ", "a", Backtick>>,          \* `# a`
      <<"#", " ", Backtick>>,                         \* text of backticks only
      <<"#", "#", "#", "#", "#", "#", "#", " ", "a">>,  \* seven #
      <<"#", "a">> }                                  \* no whitespace after #

DocsUpTo(S, n) == UNION {[1..m -> S] : m \in 1..n}

InitScanWith(docs) ==
    /\ AppIdle
    /\ pc = "call"
    /\ content \in {Join(d) : d \in docs}
    /\ lines = <<>>
    /\ i = 0
    /\ inFencedCodeBlock = FALSE
    /\ fencePattern = ""
    /\ headers = <<>>
    /\ headerLine = <<>>
    /\ usedIds = {}
    /\ headerIds = EmptyMap
    /\ producedIds = <<>>
    /\ k = 0
    /\ SlugIdle
    /\ ExtIdle

Init == InitScanWith(DocsUpTo(ScanLineSet, MaxLines))

Next ==
    \/ ReturnEmptyMap
    \/ EnterExtract
    \/ ScanLine
    \/ ReturnHeaders
    \/ AssignId
    \/ ReturnHeaderIds

Spec == Init /\ [][Next]_vars

\* the lines a document of headers is made of
IdLineSet ==
    { <<>>,                             \* empty line
      <<"#", " ", "a">>,                \* # a
      <<"#", "#", " ", "A">>,           \* ## A
      <<"#", " ", "a", "&">>,           \* # a&
      <<"#", " ", "a", " ", "2">>,      \* # a 2
      <<"#", " ", "&">>,                \* # &
      <<"~", "~", "~">> }               \* tilde fence

InitIds == InitScanWith(DocsUpTo(IdLineSet, MaxIdLines))

SpecIds == InitIds /\ [][Next]_vars

\* extractMarkdownHeaders as a function: the for loop from line idx on
RECURSIVE ExtractFrom(_, _, _, _)
ExtractFrom(ls, idx, inFence, pattern) ==
    IF idx > Len(ls) THEN <<>>
    ELSE LET r == ScanStep(ls[idx], inFence, pattern)
         IN  (IF r.push THEN <<r.headerText>> ELSE <<>>)
                 \o ExtractFrom(ls, idx + 1, r.inFence, r.pattern)

extractMarkdownHeaders(ls) == ExtractFrom(ls, 1, FALSE, "")

(***************************************************************************)
(* Properties of slugify and generateUniqueSlug                            *)
(***************************************************************************)
RemoveHyphens(s) == SelectSeq(s, LAMBDA c : c # "-")
HasHyphen(s) == \E j \in 1..Len(s) : s[j] = "-"

\* C2 as stated: slugify is idempotent, slugify(slugify(s)) = slugify(s),
\* also for inputs whose slug contains hyphens.
C2_Idempotent == pc = "reslugified" => slugAgain = slug

\* C2 amended: slugify applied to a slug removes the slug's hyphens and
\* changes nothing else; it is idempotent exactly on hyphen-free slugs.
C2_SecondPassRemovesHyphens ==
    pc = "reslugified" =>
        /\ slugAgain = RemoveHyphens(slug)
        /\ (slugAgain = slug <=> ~HasHyphen(slug))

C2_Witness ==
    /\ pc = "reslugified"
    /\ text = <<"a", " ", "A">>
    /\ slug = <<"a", "-", "a">>
    /\ slugAgain = <<"a", "a">>

SlugChars == {"a", "d", "e", "g", "h", "i", "n"} \cup Digit \cup {"-"}

WellFormedSlug(s) ==
    /\ \A j \in 1..Len(s) : s[j] \in SlugChars
    /\ s # <<>> => s[1] # "-" /\ s[Len(s)] # "-"
    /\ \A j \in 1..(Len(s) - 1) : ~(s[j] = "-" /\ s[j + 1] = "-")

\* C5: the result of slugify holds only lowercase letters, digits and
\* hyphens, has no leading or trailing hyphen and no two hyphens in a row.
C5_SlugShape == pc \in {"slugified", "reslugified"} => WellFormedSlug(slug)

C5_Witness ==
    /\ pc = "slugified"
    /\ text = <<"a", " ", "&", "\t", "A">>
    /\ slug = <<"a", "-", "a">>

\* the least n >= 2 with base-n not in ids
LeastFreeSuffix(base, ids) ==
    CHOOSE n \in 2..(Cardinality(ids) + 2) :
        /\ Suffixed(base, n) \notin ids
        /\ \A m \in 2..(n - 1) : Suffixed(base, m) \in ids

\* C3: generateUniqueSlug returns the base slug when it is free, otherwise
\* base-n for the least n >= 2 that is free; the result was not in the set
\* before, and the set afterwards is the old set plus the result.
C3_UniqueSlug ==
    pc = "generated" =>
        LET base == IF slugify(text) = <<>> THEN heading ELSE slugify(text)
        IN  /\ base \notin idsBefore => uniqueSlug = base
            /\ base \in idsBefore =>
                   uniqueSlug = Suffixed(base, LeastFreeSuffix(base, idsBefore))
            /\ uniqueSlug \notin idsBefore
            /\ existingIds = idsBefore \cup {uniqueSlug}

C3_Witness ==
    /\ pc = "generated"
    /\ slugify(text) = <<>>
    /\ idsBefore = {heading, Suffixed(heading, 2), <<"a">>}
    /\ uniqueSlug = Suffixed(heading, 3)
    /\ existingIds = idsBefore \cup {Suffixed(heading, 3)}

(***************************************************************************)
(* Properties of the line scan                                             *)
(***************************************************************************)
Range(f) == {f[x] : x \in DOMAIN f}
Least(S) == CHOOSE x \in S : \A y \in S : x <= y

\* the scan is over and its result has been used
ScanFinished == pc = "done" /\ content # <<>>

\* the trimmed line starts with three characters c
StartsWithThree(l, c) ==
    LET t == Trim(l) IN Len(t) >= 3 /\ \A m \in 1..3 : t[m] = c

FenceKind(l) ==
    IF StartsWithThree(l, Backtick) THEN Backtick
    ELSE IF StartsWithThree(l, "~") THEN "~"
    ELSE "none"

IsFenceLine(l) == FenceKind(l) # "none"

\* the line closing the fence opened at line o (past the end when unclosed)
ClosingLine(ls, o) ==
    LET cs == {c \in (o + 1)..Len(ls) : FenceKind(ls[c]) = FenceKind(ls[o])}
    IN  IF cs = {} THEN Len(ls) + 1 ELSE Least(cs)

\* the opening fence lines at or after line `from`, block by block
RECURSIVE OpeningLines(_, _)
OpeningLines(ls, from) ==
    LET fs == {f \in from..Len(ls) : IsFenceLine(ls[f])}
    IN  IF fs = {} THEN {}
        ELSE {Least(fs)} \cup OpeningLines(ls, ClosingLine(ls, Least(fs)) + 1)

BetweenFences(ls, j) ==
    \E o \in OpeningLines(ls, 1) : o < j /\ j < ClosingLine(ls, o)

\* begins with four spaces or with a tab
IndentedLine(l) ==
    \/ Len(l) >= 4 /\ \A m \in 1..4 : l[m] = " "
    \/ Len(l) >= 1 /\ l[1] = "\t"

\* t is 1 to 6 '#', then whitespace, then non-empty text
MatchesHeaderPattern(t) ==
    \E n \in 1..6 : \E w \in 1..Len(t) :
        /\ Len(t) > n + w
        /\ \A m \in 1..n : t[m] = "#"
        /\ \A m \in (n + 1)..(n + w) : t[m] \in Whitespace

\* the text of a line matching the header pattern
TextOf(t) ==
    LET p == Least({q \in 2..Len(t) :
                       t[q - 1] \in Whitespace /\ t[q] \notin Whitespace})
    IN  SubSeq(t, p, Len(t))

AllBackticks(s) == s # <<>> /\ Range(s) = {Backtick}

\* a line the extractor is to accept when it is outside code
GenuineHeaderLine(l) ==
    /\ MatchesHeaderPattern(Trim(l))
    /\ ~AllBackticks(TextOf(Trim(l)))

\* C6: no extracted header comes from a line between an opening fence line
\* and its closing fence line, and an unindented header line outside every
\* fenced block is extracted.
C6_NoHeaderInsideFence ==
    ScanFinished =>
        /\ \A n \in 1..Len(headerLine) : ~BetweenFences(lines, headerLine[n])
        /\ \A j \in 1..Len(lines) :
               (/\ GenuineHeaderLine(lines[j])
                /\ ~IndentedLine(lines[j])
                /\ ~BetweenFences(lines, j)) => j \in Range(headerLine)

C6_Witness ==
    /\ pc = "done"
    /\ lines = << <<Backtick, Backtick, Backtick>>, <<"#", " ", "a">>,
                  <<Backtick, Backtick, Backtick>>, <<"#", " ", "a">> >>
    /\ headerLine = <<4>>
    /\ headers = << <<"a">> >>

\* C7: during the scan a fence is left only on a line starting with three of
\* the characters that opened it; a fence line of the other character leaves
\* the scanner inside the fence; no header is pushed while inside a fence.
C7_FenceClosedBySameCharacter ==
    [][(pc = "scan" /\ i <= Len(lines)) =>
          /\ (inFencedCodeBlock /\ ~inFencedCodeBlock') =>
                 StartsWithThree(lines[i], fencePattern)
          /\ (/\ inFencedCodeBlock
              /\ IsFenceLine(lines[i])
              /\ FenceKind(lines[i]) # fencePattern) =>
                 (inFencedCodeBlock' /\ fencePattern' = fencePattern)
          /\ inFencedCodeBlock => headers' = headers]_vars

C7_Witness ==
    /\ pc = "scan"
    /\ i = 4
    /\ SubSeq(lines, 1, 3) = << <<Backtick, Backtick, Backtick>>,
                                <<"~", "~", "~">>, <<"#", " ", "a">> >>
    /\ inFencedCodeBlock
    /\ fencePattern = Backtick
    /\ headers = <<>>

\* C8 as stated: a line beginning with four spaces or a tab has no effect on
\* the scan, so the headers found are those of the document without its
\* indented lines.
C8_IndentedLinesInert ==
    ScanFinished =>
        headers = extractMarkdownHeaders(
                      SelectSeq(lines, LAMBDA l : ~IndentedLine(l)))

\* the first '#' of the line has an odd number of single backticks before it
MarkerInsideInlineCode(l) ==
    /\ "#" \in Range(l)
    /\ LET p == Least({q \in 1..Len(l) : l[q] = "#"})
           singles == {q \in 1..(p - 1) :
                          /\ l[q] = Backtick
                          /\ (q = 1 \/ l[q - 1] # Backtick)
                          /\ (q = Len(l) \/ l[q + 1] # Backtick)}
       IN  Cardinality(singles) % 2 = 1

\* C9: no header is extracted from a line whose '#' marker is inside an open
\* single-backtick span, and no extracted text consists solely of backticks.
C9_NoInlineCodeHeader ==
    ScanFinished =>
        \A n \in 1..Len(headerLine) :
            /\ ~MarkerInsideInlineCode(lines[headerLine[n]])
            /\ ~AllBackticks(headers[n])

C9_Witness ==
    /\ pc = "done"
    /\ lines = << <<Backtick, "#", " ", "a", Backtick>>,
                  <<"#", " ", Backtick>>, <<"#", " ", "a">> >>
    /\ headerLine = <<3>>

\* what C10 says of every extracted header
ExtractedHeadersWellFormed ==
    /\ Len(headers) = Len(headerLine)
    /\ \A n \in 1..Len(headerLine) :
           LET t == Trim(lines[headerLine[n]])
           IN  /\ MatchesHeaderPattern(t)
               /\ headers[n] = TextOf(t)
               /\ headers[n] # <<>>
               /\ headers[n][1] \notin Whitespace
               /\ headers[n][Len(headers[n])] \notin Whitespace
    /\ \A n \in 1..(Len(headerLine) - 1) : headerLine[n] < headerLine[n + 1]

\* C10 as stated: a line outside fences and indented blocks is extracted
\* exactly when it matches the header pattern.
C10_ExtractedIffPattern ==
    ScanFinished =>
        /\ \A j \in 1..Len(lines) :
               (~BetweenFences(lines, j) /\ ~IndentedLine(lines[j])) =>
                   (j \in Range(headerLine) <=>
                        MatchesHeaderPattern(Trim(lines[j])))
        /\ ExtractedHeadersWellFormed

\* C10 amended: such a line is extracted exactly when its trimmed content
\* matches the header pattern and its text is not made of backticks only;
\* every extracted text is the trimmed, non-empty text of its line, and the
\* headers are in document order, one per accepted line.
C10_ExtractedIffGenuine ==
    ScanFinished =>
        /\ \A j \in 1..Len(lines) :
               (~BetweenFences(lines, j) /\ ~IndentedLine(lines[j])) =>
                   (j \in Range(headerLine) <=> GenuineHeaderLine(lines[j]))
        /\ ExtractedHeadersWellFormed

C10_Witness ==
    /\ pc = "done"
    /\ lines = << <<"#", "#", "#", "#", "#", "#", "#", " ", "a">>,
                  <<"#", "a">>,
                  <<" ", "#", " ", " ", "A", " ">>,
                  <<"#", " ", "a">> >>
    /\ headers = << <<"A">>, <<"a">> >>
    /\ headerLine = <<3, 4>>

(***************************************************************************)
(* Properties of precomputeHeaderIds                                       *)
(***************************************************************************)
\* C1: the slugs held as values of the returned map are pairwise distinct.
C1_DistinctSlugs ==
    pc \in {"ids", "done"} =>
        \A t1, t2 \in DOMAIN headerIds :
            t1 # t2 => headerIds[t1] # headerIds[t2]

C1_Witness ==
    /\ pc = "done"
    /\ headers = << <<"a", " ", "2">>, <<"a">>, <<"A">>, <<"a">> >>
    /\ headerIds[<<"a", " ", "2">>] = <<"a", "-", "2">>
    /\ headerIds[<<"A">>] = <<"a", "-", "3">>
    /\ headerIds[<<"a">>] = <<"a", "-", "4">>

\* positions of the headers whose base slug is b
WithBase(b) == {n \in 1..Len(headers) : BaseSlug(headers[n]) = b}

\* C4: when the headers slugifying to b have pairwise different texts and no
\* other header produces b or a numbered form of b, the first of them is
\* mapped to b and the k-th to b-k.
C4_FirstOccurrenceBare ==
    pc = "done" =>
        \A b \in {BaseSlug(headers[n]) : n \in 1..Len(headers)} :
            (/\ \A m, n \in WithBase(b) : m # n => headers[m] # headers[n]
             /\ \A n \in (1..Len(headers)) \ WithBase(b) :
                    /\ producedIds[n] # b
                    /\ \A c \in 2..Len(headers) : producedIds[n] # Suffixed(b, c))
            => \A n \in WithBase(b) :
                   LET rank == Cardinality({m \in WithBase(b) : m <= n})
                   IN  headerIds[headers[n]] =
                           IF rank = 1 THEN b ELSE Suffixed(b, rank)

C4_Witness ==
    /\ pc = "done"
    /\ headers = << <<"a">>, <<"A">>, <<"a", "&">> >>
    /\ headerIds[<<"a">>] = <<"a">>
    /\ headerIds[<<"A">>] = <<"a", "-", "2">>
    /\ headerIds[<<"a", "&">>] = <<"a", "-", "3">>

(***************************************************************************)
(* buildNestedTOC and flattenTOC (src/src/utils/tocExtractor.ts)           *)
(*                                                                         *)
(* A TOCItem object is named by the position of its header in flatItems;   *)
(* children[n] is the children array of object n, result and stack hold    *)
(* object names.                                                           *)
(***************************************************************************)
MaxTocItems == 4     \* most headers given to buildNestedTOC

\* while (stack.length > 0 && stack[stack.length - 1].level > item.level) pop
RECURSIVE PopStackStrict(_, _, _)
PopStackStrict(st, items, level) ==
    IF Len(st) > 0 /\ items[st[Len(st)]].level > level
    THEN PopStackStrict(SubSeq(st, 1, Len(st) - 1), items, level)
    ELSE st

\* while (stack.length > 0 && stack[stack.length - 1].level >= item.level) pop
RECURSIVE PopStack(_, _, _)
PopStack(st, items, level) ==
    IF Len(st) > 0 /\ items[st[Len(st)]].level >= level
    THEN PopStack(SubSeq(st, 1, Len(st) - 1), items, level)
    ELSE st

\* const result = []; const stack = []
BuildEnter ==
    /\ pc = "build"
    /\ result' = <<>>
    /\ stack' = <<>>
    /\ children' = <<>>
    /\ item' = 1
    /\ pc' = "nest"
    /\ UNCHANGED <<slugVars, scanVars, appVars, flatItems, flattened>>
    /\ UNCHANGED <<syncVars, tokVars>>

\* one iteration of for (const item of flatItems)
NestItem ==
    /\ pc = "nest"
    /\ item <= Len(flatItems)
    /\ LET st == PopStack(stack, flatItems, flatItems[item].level)
       IN  /\ result' = IF Len(st) = 0 THEN Append(result, item) ELSE result
           /\ children' =
                 Append(IF Len(st) = 0 THEN children
                        ELSE [children EXCEPT ![st[Len(st)]] = Append(@, item)],
                        <<>>)
           /\ stack' = Append(st, item)
    /\ item' = item + 1
    /\ UNCHANGED <<pc, slugVars, scanVars, appVars, flatItems, flattened>>
    /\ UNCHANGED <<syncVars, tokVars>>

\* return result
BuildReturn ==
    /\ pc = "nest"
    /\ item > Len(flatItems)
    /\ pc' = "flatten"
    /\ UNCHANGED <<slugVars, scanVars, appVars, tocVars>>
    /\ UNCHANGED <<syncVars, tokVars>>

\* traverse(items, depth): push { ...item, depth }, then the children
RECURSIVE Traverse(_, _, _, _)
Traverse(items, depth, flat, kids) ==
    IF Len(items) = 0 THEN <<>>
    ELSE LET n == Head(items)
         IN  <<[node |-> n, id |-> flat[n].id, text |-> flat[n].text,
                level |-> flat[n].level, depth |-> depth]>>
                 \o Traverse(kids[n], depth + 1, flat, kids)
                 \o Traverse(Tail(items), depth, flat, kids)

flattenTOC(items, flat, kids) == Traverse(items, 0, flat, kids)

CallFlattenTOC ==
    /\ pc = "flatten"
    /\ flattened' = flattenTOC(result, flatItems, children)
    /\ pc' = "done"
    /\ UNCHANGED <<slugVars, scanVars, appVars, flatItems, children, result, stack, item>>
    /\ UNCHANGED <<syncVars, tokVars>>

NextNest == BuildEnter \/ NestItem \/ BuildReturn \/ CallFlattenTOC

\* the header records given to buildNestedTOC: every sequence of levels
HeaderRecord(j, level) ==
    [id |-> <<"h">> \o NumberToString(j), text |-> <<"H">> \o NumberToString(j),
     level |-> level]

InitNest ==
    /\ AppIdle
    /\ pc = "build"
    /\ flatItems \in UNION {{[j \in 1..m |-> HeaderRecord(j, f[j])] :
                                f \in [1..m -> 1..6]} : m \in 0..MaxTocItems}
    /\ children = <<>>
    /\ result = <<>>
    /\ stack = <<>>
    /\ item = 0
    /\ flattened = <<>>
    /\ SlugIdle
    /\ ScanIdle
    /\ SyncIdle
    /\ TokIdle

SpecNest == InitNest /\ [][NextNest]_vars

(***************************************************************************)
(* Properties of buildNestedTOC and flattenTOC                             *)
(***************************************************************************)
\* how many times object n occurs in an array of objects
Count(arr, n) == Cardinality({x \in 1..Len(arr) : arr[x] = n})

\* the nearest preceding header of a smaller level (0: there is none)
NearestSmaller(j) ==
    LET S == {p \in 1..(j - 1) : flatItems[p].level < flatItems[j].level}
    IN  IF S = {} THEN 0 ELSE CHOOSE p \in S : \A q \in S : q <= p

\* the object whose children array holds n (0: none, n is a root)
TreeParent(n) ==
    IF \E p \in 1..Len(children) : Count(children[p], n) > 0
    THEN CHOOSE p \in 1..Len(children) : Count(children[p], n) > 0
    ELSE 0

RECURSIVE AncestorCount(_)
AncestorCount(n) ==
    IF TreeParent(n) = 0 THEN 0 ELSE 1 + AncestorCount(TreeParent(n))

\* C12: once buildNestedTOC and flattenTOC have returned, every header is
\* held exactly once, by the children array of the nearest preceding header
\* of a strictly smaller level or by the root array when there is no such
\* header; every child's level exceeds its parent's; and the flattened list
\* is the headers in document order, each with depth = number of ancestors.
C12_NestedUnderNearestSmaller ==
    pc = "done" =>
        /\ Len(children) = Len(flatItems)
        /\ \A j \in 1..Len(flatItems) :
              /\ Count(result, j) = (IF NearestSmaller(j) = 0 THEN 1 ELSE 0)
              /\ \A p \in 1..Len(flatItems) :
                    Count(children[p], j) = (IF NearestSmaller(j) = p THEN 1 ELSE 0)
        /\ \A p \in 1..Len(children) : \A x \in 1..Len(children[p]) :
              flatItems[children[p][x]].level > flatItems[p].level
        /\ Len(flattened) = Len(flatItems)
        /\ \A j \in 1..Len(flattened) :
              /\ flattened[j].node = j
              /\ flattened[j].id = flatItems[j].id
              /\ flattened[j].text = flatItems[j].text
              /\ flattened[j].level = flatItems[j].level
              /\ flattened[j].depth = AncestorCount(j)

\* a finished build with a grandchild, a level that is skipped, two siblings
\* of equal level and a return to a root after deeper headers
C12_Witness ==
    /\ pc = "done"
    /\ Len(flattened) = MaxTocItems
    /\ \E j \in 1..Len(flattened) : flattened[j].depth = 2
    /\ \E j \in 2..Len(flattened) :
          /\ flattened[j].depth = flattened[j - 1].depth
          /\ flattened[j].depth > 0
    /\ \E j \in 2..Len(flatItems) :
          flatItems[j].level > flatItems[j - 1].level + 1

(***************************************************************************)
(* extractTableOfContents (src/src/utils/tocExtractor.ts)                  *)
(***************************************************************************)
MaxTocLines == 4     \* most lines of a document given to extractTableOfContents

\* headers.forEach(text => headerIds.set(text, generateUniqueSlug(text, usedIds)))
RECURSIVE AssignIdsFrom(_, _, _, _)
AssignIdsFrom(hs, idx, map, used) ==
    IF idx > Len(hs) THEN map
    ELSE LET r == generateUniqueSlug(hs[idx], used)
         IN  AssignIdsFrom(hs, idx + 1, MapSet(map, hs[idx], r.id), r.ids)

\* precomputeHeaderIds as a function of the content
precomputeHeaderIds(c) ==
    IF c = <<>> THEN EmptyMap
    ELSE AssignIdsFrom(extractMarkdownHeaders(Split(c)), 1, EmptyMap, {})

\* .replace(/\s+/g, '-')
RECURSIVE WhitespaceRunsToHyphen(_)
WhitespaceRunsToHyphen(s) ==
    IF s = <<>> THEN <<>>
    ELSE IF Head(s) \in Whitespace
         THEN <<"-">> \o WhitespaceRunsToHyphen(TrimStart(s))
         ELSE <<Head(s)>> \o WhitespaceRunsToHyphen(Tail(s))

\* idMap.get(text) || text.toLowerCase().replace(/\s+/g, '-')
\* (a variant that never consults the map)
HeaderIdIgnoringMap(idMap, t) == WhitespaceRunsToHyphen(ToLowerCase(t))

HeaderIdFor(idMap, t) ==
    IF t \in DOMAIN idMap /\ idMap[t] # <<>> THEN idMap[t]
    ELSE WhitespaceRunsToHyphen(ToLowerCase(t))

\* one iteration of the re-scan: the locals after it and the pushed item
TocScanStep(line, inFence, pattern, headerTexts, idMap) ==
    LET trimmedLine == Trim(line)
        fence == FenceChar(trimmedLine)
        headerMatch == HeaderMatch(trimmedLine)
        level == headerMatch.level
        t == Trim(headerMatch.group2)
        skip == [inFence |-> inFence, pattern |-> pattern, push |-> <<>>]
    IN  IF fence # ""
        THEN IF ~inFence
             THEN [skip EXCEPT !.inFence = TRUE, !.pattern = fence]
             ELSE IF ClosesFence(trimmedLine, pattern)
                  THEN [skip EXCEPT !.inFence = FALSE, !.pattern = ""]
                  ELSE skip
        ELSE IF inFence THEN skip
        ELSE IF IsIndentedCode(line) THEN skip
        ELSE IF /\ headerMatch.matched
                /\ \E x \in 1..Len(headerTexts) : headerTexts[x] = t
             THEN [skip EXCEPT !.push = <<[id |-> HeaderIdFor(idMap, t),
                                          text |-> t, level |-> level]>>]
             ELSE skip

\* the for loop over lines, from line idx on: the flat items pushed
RECURSIVE TocScanFrom(_, _, _, _, _, _)
TocScanFrom(ls, idx, inFence, pattern, headerTexts, idMap) ==
    IF idx > Len(ls) THEN <<>>
    ELSE LET r == TocScanStep(ls[idx], inFence, pattern, headerTexts, idMap)
         IN  r.push \o TocScanFrom(ls, idx + 1, r.inFence, r.pattern,
                                   headerTexts, idMap)

\* if (!content) return [] -- the caller then flattens the empty array
ReturnNoTOC ==
    /\ pc = "toc"
    /\ content = <<>>
    /\ result' = <<>>
    /\ pc' = "flatten"
    /\ UNCHANGED <<slugVars, scanVars, appVars, flatItems, children, stack, item, flattened>>
    /\ UNCHANGED <<syncVars, tokVars>>

\* extractTableOfContents(content) up to the call of buildNestedTOC;
\* headerIds holds its idMap and headers its headerTexts
ScanForTOC ==
    /\ pc = "toc"
    /\ content # <<>>
    /\ headerIds' = precomputeHeaderIds(content)
    /\ headers' = extractMarkdownHeaders(Split(content))
    /\ lines' = Split(content)
    /\ IF Len(headers') = 0
       THEN /\ result' = <<>>
            /\ pc' = "flatten"
            /\ UNCHANGED flatItems
       ELSE /\ flatItems' = TocScanFrom(lines', 1, FALSE, "", headers', headerIds')
            /\ pc' = "build"
            /\ UNCHANGED result
    /\ UNCHANGED <<slugVars, content, i, inFencedCodeBlock, fencePattern,
                   headerLine, usedIds, producedIds, k>>
    /\ UNCHANGED <<children, stack, item, flattened>>
    /\ UNCHANGED <<syncVars, tokVars, appVars>>

NextToc == ReturnNoTOC \/ ScanForTOC \/ NextNest

\* the lines a document with a table of contents is made of
TocLineSet ==
    { <<>>,                                   \* empty line
      <<"#", " ", "a">>,                      \* # a
      <<"#", "#", " ", "a">>,                 \* ## a (the same text again)
      <<"#", "#", "#", " ", "a", " ", "A">>,  \* ### a A
      <<" ", "#", " ", " ", "A", " ">>,       \* indented by one space
      <<"#", " ", Backtick>>,                 \* text of backticks only
      <<"~", "~", "~">>,                      \* tilde fence
      <<"\t", "#", " ", "a">> }               \* header behind a tab

InitToc ==
    /\ AppIdle
    /\ pc = "toc"
    /\ content \in {<<>>} \cup {Join(d) : d \in DocsUpTo(TocLineSet, MaxTocLines)}
    /\ lines = <<>>
    /\ i = 0
    /\ inFencedCodeBlock = FALSE
    /\ fencePattern = ""
    /\ headers = <<>>
    /\ headerLine = <<>>
    /\ usedIds = {}
    /\ headerIds = EmptyMap
    /\ producedIds = <<>>
    /\ k = 0
    /\ SlugIdle
    /\ TocIdle
    /\ SyncIdle
    /\ TokIdle

SpecToc == InitToc /\ [][NextToc]_vars

(***************************************************************************)
(* The table of contents against the extractor and the id map              *)
(***************************************************************************)
\* C11: the texts of flattenTOC(extractTableOfContents(content)) are, in
\* order, extractMarkdownHeaders(content), and every entry's id is the value
\* precomputeHeaderIds(content) holds for its text, which is also the id the
\* preview looks up for that text.
C11_TocAgreesWithIdMap ==
    pc = "done" =>
        LET idMap == precomputeHeaderIds(content)
            texts == IF content = <<>> THEN <<>>
                     ELSE extractMarkdownHeaders(Split(content))
        IN  /\ [j \in 1..Len(flattened) |-> flattened[j].text] = texts
            /\ \A j \in 1..Len(flattened) :
                  /\ flattened[j].text \in DOMAIN idMap
                  /\ flattened[j].id = idMap[flattened[j].text]
                  /\ flattened[j].id = HeaderIdFor(idMap, flattened[j].text)

\* a finished table of contents with a repeated header text, a header inside
\* a fence or behind a tab that is left out, and a nested entry
C11_Witness ==
    /\ pc = "done"
    /\ Len(flattened) >= 2
    /\ \E j \in 1..Len(flattened) : flattened[j].depth = 1
    /\ \E j \in 1..Len(flattened) :
          flattened[j].id # WhitespaceRunsToHyphen(ToLowerCase(flattened[j].text))
    /\ \E j \in 1..Len(lines) :
          HeaderMatch(Trim(lines[j])).matched /\ Len(flattened) < Len(lines) - 1

(***************************************************************************)
(* Cursor-based synchronisation (src/src/components/ContentArea.tsx)       *)
(***************************************************************************)
MaxSyncLines == 2    \* most lines of the file shown in the split view

NoSection == <<"?", "none">>       \* the resolver found no section
Undefined == <<"?", "undefined">>  \* JavaScript's undefined

\* Map.prototype.get
MapGet(map, key) == IF key \in DOMAIN map THEN map[key] ELSE Undefined

\* the for loop finding currentLine (0-based), from line idx (1-based) on,
\* with `>=` in place of `>`
RECURSIVE FindLineAtBoundary(_, _, _, _)
FindLineAtBoundary(ls, idx, charactersCount, cursorPosition) ==
    IF idx > Len(ls) THEN 0
    ELSE LET lineLength == Len(ls[idx]) + 1
         IN  IF charactersCount + lineLength >= cursorPosition
             THEN idx - 1
             ELSE FindLineAtBoundary(ls, idx + 1, charactersCount + lineLength,
                                     cursorPosition)

\* the for loop finding currentLine (0-based), from line idx (1-based) on
RECURSIVE FindLine(_, _, _, _)
FindLine(ls, idx, charactersCount, cursorPosition) ==
    IF idx > Len(ls) THEN 0
    ELSE LET lineLength == Len(ls[idx]) + 1
         IN  IF charactersCount + lineLength > cursorPosition
             THEN idx - 1
             ELSE FindLine(ls, idx + 1, charactersCount + lineLength,
                           cursorPosition)

\* the backward for loop starting one line above line idx
RECURSIVE NearestHeaderTextAbove(_, _)
NearestHeaderTextAbove(ls, idx) ==
    IF idx <= 1 THEN <<>>
    ELSE LET headerMatch == HeaderMatch(ls[idx - 1])
         IN  IF headerMatch.matched THEN Trim(headerMatch.group2)
             ELSE NearestHeaderTextAbove(ls, idx - 1)

\* the backward for loop from line idx (1-based) to the first line:
\* nearestHeaderText, '' when no line matches
RECURSIVE NearestHeaderText(_, _)
NearestHeaderText(ls, idx) ==
    IF idx < 1 THEN <<>>
    ELSE LET headerMatch == HeaderMatch(ls[idx])
         IN  IF headerMatch.matched THEN Trim(headerMatch.group2)
             ELSE NearestHeaderText(ls, idx - 1)

\* nearestHeaderText && headerIds?.has(nearestHeaderText), always taken
SectionHitAlways(nearestHeaderText, idMap) == TRUE

\* nearestHeaderText && headerIds?.has(nearestHeaderText)
SectionHit(nearestHeaderText, idMap) ==
    nearestHeaderText # <<>> /\ nearestHeaderText \in DOMAIN idMap

\* one cursor event; `element` is what document.getElementById and
\* scrollIntoView do: the element is found and scrolled to, is absent, or
\* the scroll call throws
handleCursorPositionChange ==
    /\ pc = "sync"
    /\ \E cursorPosition \in 0..Len(content) :
       \E element \in {"found", "absent", "throws"} :
          /\ cursor' = cursorPosition
          /\ IF \/ isScrollingSync
                \/ viewMode # "split"
                \/ ~viewerMounted
                \/ content = <<>>
             THEN /\ resolved' = Nothing
                  /\ scrollInvoked' = FALSE
                  /\ errorRaised' = FALSE
                  /\ UNCHANGED <<isScrollingSync, pendingResets, viewerScroll>>
             ELSE LET ls == Split(content)
                      currentLine == FindLine(ls, 1, 0, cursorPosition)
                      nearestHeaderText == NearestHeaderText(ls, currentLine + 1)
                      elementId == MapGet(headerIds, nearestHeaderText)
                  IN  IF SectionHit(nearestHeaderText, headerIds)
                      THEN /\ resolved' = elementId
                           /\ isScrollingSync' = TRUE
                           /\ scrollInvoked' = (element # "absent")
                           /\ viewerScroll' = IF element = "found"
                                              THEN elementId ELSE viewerScroll
                           /\ errorRaised' = (element = "throws")
                           \* finally: setTimeout(..., 500)
                           /\ pendingResets' = pendingResets + 1
                      ELSE /\ resolved' = NoSection
                           /\ scrollInvoked' = FALSE
                           /\ errorRaised' = FALSE
                           /\ UNCHANGED <<isScrollingSync, pendingResets,
                                          viewerScroll>>
    /\ UNCHANGED <<pc, slugVars, scanVars, appVars, tocVars, viewMode, viewerMounted>>
    /\ UNCHANGED tokVars

\* the callback given to setTimeout runs
ResetTimerFires ==
    /\ pc = "sync"
    /\ pendingResets > 0
    /\ isScrollingSync' = FALSE
    /\ pendingResets' = pendingResets - 1
    /\ UNCHANGED <<pc, slugVars, scanVars, appVars, tocVars, viewMode, viewerMounted,
                   viewerScroll, cursor, resolved, scrollInvoked, errorRaised>>
    /\ UNCHANGED tokVars

NextSync == handleCursorPositionChange \/ ResetTimerFires

\* the lines the edited file is made of
SyncLineSet ==
    { <<"#", " ", "a">>,             \* # a
      <<"#", "#", " ", "A", " ">>,   \* ## A, trailing space
      <<"a">>,                       \* body text
      <<"#", " ", " ">>,             \* '#' and whitespace only
      <<" ", "#", " ", "a">>,        \* header indented by one space
      <<"~", "~", "~">> }            \* tilde fence

\* App.tsx computes the headerIds prop from the content of the current file
InitSync ==
    /\ AppIdle
    /\ pc = "sync"
    /\ content \in {<<>>} \cup {Join(d) : d \in DocsUpTo(SyncLineSet, MaxSyncLines)}
    /\ headerIds = precomputeHeaderIds(content)
    /\ lines = <<>>
    /\ i = 0
    /\ inFencedCodeBlock = FALSE
    /\ fencePattern = ""
    /\ headers = <<>>
    /\ headerLine = <<>>
    /\ usedIds = {}
    /\ producedIds = <<>>
    /\ k = 0
    /\ SlugIdle
    /\ TocIdle
    /\ TokIdle
    /\ viewMode \in {"viewer", "editor", "split"}
    /\ viewerMounted \in BOOLEAN
    /\ isScrollingSync = FALSE
    /\ pendingResets = 0
    /\ viewerScroll = Nothing
    /\ cursor = 0
    /\ resolved = Nothing
    /\ scrollInvoked = FALSE
    /\ errorRaised = FALSE

SpecSync == InitSync /\ [][NextSync]_vars

(***************************************************************************)
(* Properties of section resolution                                        *)
(***************************************************************************)
\* the latest cursor event got past the early return
ResolverRan == pc = "sync" /\ resolved # Nothing

\* 0-based index of the line holding the caret: the newlines before it
LineOfCaret(pos) == Cardinality({p \in 1..pos : content[p] = "\n"})

\* the header text of a line matching the header pattern: what follows the
\* leading '#' characters, trimmed
TrimmedHeaderText(l) ==
    Trim(SubSeq(l, RunLength(l, 1, {"#"}) + 1, Len(l)))

\* 0-based indexes of the lines at or above the caret that match the pattern
HeaderLinesUpTo(pos) ==
    {j \in 0..LineOfCaret(pos) : MatchesHeaderPattern(Split(content)[j + 1])}

\* what the claim says the resolver yields for a caret at pos
ExpectedSection(pos) ==
    LET J == HeaderLinesUpTo(pos)
        j == CHOOSE x \in J : \A y \in J : y <= x
        t == TrimmedHeaderText(Split(content)[j + 1])
    IN  IF J # {} /\ t \in DOMAIN headerIds THEN headerIds[t] ELSE NoSection

\* C13: the resolver yields the id the map holds for the trimmed text of the
\* nearest line at or above the caret's line that matches the header
\* pattern, and none when there is no such line or its text is not a key.
C13_ResolvesNearestHeaderLine ==
    ResolverRan => resolved = ExpectedSection(cursor)

\* the caret is in a body line below a header and resolves to its slug
C13_Witness ==
    /\ ResolverRan
    /\ resolved # NoSection
    /\ LineOfCaret(cursor) >= 1
    /\ LineOfCaret(cursor) \notin HeaderLinesUpTo(cursor)

\* the document has no header
ZeroHeaders ==
    content = <<>> \/ extractMarkdownHeaders(Split(content)) = <<>>

C15_MissIsNoOp ==
    [][(/\ handleCursorPositionChange
        /\ resolved' # Nothing
        /\ ExpectedSection(cursor') = NoSection)
       => /\ isScrollingSync = FALSE
          /\ isScrollingSync' = FALSE
          /\ pendingResets' = pendingResets
          /\ viewerScroll' = viewerScroll
          /\ ~scrollInvoked']_vars

\* a miss after an earlier hit: the viewer stays where the hit scrolled it
C15_Witness ==
    /\ ResolverRan
    /\ resolved = NoSection
    /\ viewerScroll # Nothing
    /\ ~isScrollingSync
    /\ pendingResets = 0

(***************************************************************************)
(* filterOverlappingTokens (src/src/components/SyntaxHighlightedEditor.tsx)*)
(*                                                                         *)
(* A token is a record [type, start, end, content]; offsets are 0-based    *)
(* and end is exclusive, as in the source.                                 *)
(***************************************************************************)
MaxTokens == 3       \* most tokens given to filterOverlappingTokens
MaxOffset == 3       \* largest offset of such a token

\* (a, b) => a.start - b.start
CompareStartOnly(a, b) == a.start - b.start

\* (a, b) => a.start !== b.start ? a.start - b.start
\*                               : (a.end - a.start) - (b.end - b.start)
CompareStartThenLength(a, b) ==
    IF a.start # b.start THEN a.start - b.start
    ELSE (a.end - a.start) - (b.end - b.start)

\* [...arr].sort(cmp); Array.prototype.sort is stable, so an element goes
\* behind the elements that compare smaller and the earlier ones that
\* compare equal
StableSort(arr, cmp) ==
    LET rank(j) == 1 + Cardinality({m \in 1..Len(arr) :
                           \/ cmp[m, j] < 0
                           \/ cmp[m, j] = 0 /\ m < j})
    IN  [r \in 1..Len(arr) |-> arr[CHOOSE j \in 1..Len(arr) : rank(j) = r]]

\* the values of (a, b) => a.start - b.start on the elements of arr
ByStart(arr) ==
    [m \in 1..Len(arr), j \in 1..Len(arr) |-> CompareStartOnly(arr[m], arr[j])]

\* the values of the (start, length) comparator on the elements of arr
ByStartThenLength(arr) ==
    [m \in 1..Len(arr), j \in 1..Len(arr) |->
        CompareStartThenLength(arr[m], arr[j])]

\* the first sort of filterOverlappingTokens
SortCandidatesByStart(arr) == StableSort(arr, ByStart(arr))

SortCandidates(arr) == StableSort(arr, ByStartThenLength(arr))

\* !(token.end <= existing.start || token.start >= existing.end)
TokensOverlapNever(token, existing) == FALSE

TokensOverlap(token, existing) ==
    ~(token.end <= existing.start \/ token.start >= existing.end)

\* the for loop over sorted, from index idx on
RECURSIVE KeepFrom(_, _, _)
KeepFrom(sorted, idx, filtered) ==
    IF idx > Len(sorted) THEN filtered
    ELSE LET token == sorted[idx]
             hasOverlap == \E x \in 1..Len(filtered) :
                               TokensOverlap(token, filtered[x])
         IN  KeepFrom(sorted, idx + 1,
                      IF ~hasOverlap THEN Append(filtered, token) ELSE filtered)

filterOverlappingTokens(arr) ==
    LET filtered == KeepFrom(SortCandidates(arr), 1, <<>>)
    IN  StableSort(filtered, ByStart(filtered))

CallFilterOverlappingTokens ==
    /\ pc = "filter"
    /\ filteredTokens' = filterOverlappingTokens(tokens)
    /\ pc' = "filtered"
    /\ UNCHANGED <<slugVars, scanVars, appVars, tocVars, syncVars, source, tokens>>

NextFilter == CallFilterOverlappingTokens

\* the j-th token of a list has its own type, so that tokens stay apart
TokenTypeAt(j) ==
    CASE j = 1 -> "bold" [] j = 2 -> "italic" [] j = 3 -> "code"
      [] j = 4 -> "link" [] OTHER -> "header"

\* the ranges with 0 <= start <= end <= MaxOffset
TokenSpans == {sp \in (0..MaxOffset) \X (0..MaxOffset) : sp[1] <= sp[2]}

\* tokens is any list of at most MaxTokens tokens with such ranges
InitFilter ==
    /\ AppIdle
    /\ pc = "filter"
    /\ \E m \in 0..MaxTokens :
           \E f \in [1..m -> TokenSpans] :
               tokens = [j \in 1..m |-> [type |-> TokenTypeAt(j),
                                         start |-> f[j][1], end |-> f[j][2],
                                         content |-> <<>>]]
    /\ source = <<>>
    /\ filteredTokens = <<>>
    /\ SlugIdle
    /\ ScanIdle
    /\ TocIdle
    /\ SyncIdle

SpecFilter == InitFilter /\ [][NextFilter]_vars

(***************************************************************************)
(* Properties of overlap resolution                                        *)
(***************************************************************************)
Filtered == pc = "filtered"

\* the ranges [start, end) share an offset
RangesIntersect(a, b) ==
    \E q \in 0..MaxOffset + 1 :
        a.start <= q /\ q < a.end /\ b.start <= q /\ q < b.end

\* the interval test: each range starts before the other one ends (for
\* non-empty ranges this is RangesIntersect; an empty range overlaps a range
\* it lies strictly inside)
Overlaps(a, b) == a.start < b.end /\ b.start < a.end

Kept(t) == \E x \in 1..Len(filteredTokens) : filteredTokens[x] = t

TokenLength(t) == t.end - t.start

\* tokens[j] comes before tokens[m] in the order (start, length) ascending,
\* equal keys in input order
ComesBefore(j, m) ==
    \/ tokens[j].start < tokens[m].start
    \/ /\ tokens[j].start = tokens[m].start
       /\ TokenLength(tokens[j]) < TokenLength(tokens[m])
    \/ /\ tokens[j].start = tokens[m].start
       /\ TokenLength(tokens[j]) = TokenLength(tokens[m])
       /\ j < m

\* a token is kept exactly when it overlaps no token kept before it
GreedySelection ==
    \A m \in 1..Len(tokens) :
        Kept(tokens[m]) <=>
            ~\E j \in 1..Len(tokens) :
                 /\ ComesBefore(j, m)
                 /\ Kept(tokens[j])
                 /\ Overlaps(tokens[m], tokens[j])

\* the token with the smallest (start, length) is kept
SmallestIsKept ==
    \A m \in 1..Len(tokens) :
        (\A j \in 1..Len(tokens) : j # m => ComesBefore(m, j)) => Kept(tokens[m])

\* C19 as stated: greedy selection; of two tokens starting at the same
\* offset the shorter is kept and the longer dropped; the smallest is kept.
C19_ShorterIsKept ==
    Filtered =>
        /\ GreedySelection
        /\ \A j, m \in 1..Len(tokens) :
              (/\ tokens[j].start = tokens[m].start
               /\ TokenLength(tokens[j]) < TokenLength(tokens[m]))
              => Kept(tokens[j]) /\ ~Kept(tokens[m])
        /\ SmallestIsKept

\* C19: greedy selection over (start, length) ascending; of two tokens
\* starting at the same offset the longer is dropped whenever the shorter is
\* not empty, and the shorter is kept unless it overlaps a token kept before
\* it; the token with the smallest (start, length) is always kept.
C19_GreedyLongerIsDropped ==
    Filtered =>
        /\ GreedySelection
        /\ \A j, m \in 1..Len(tokens) :
              (/\ tokens[j].start = tokens[m].start
               /\ TokenLength(tokens[j]) < TokenLength(tokens[m]))
              => /\ TokenLength(tokens[j]) > 0 => ~Kept(tokens[m])
                 /\ Kept(tokens[j]) \/
                       \E x \in 1..Len(tokens) :
                           /\ ComesBefore(x, j)
                           /\ Kept(tokens[x])
                           /\ Overlaps(tokens[j], tokens[x])
        /\ SmallestIsKept

\* two non-empty tokens start at the same offset, the longer one first in the
\* input, and the shorter one is the one that was kept
C19_Witness ==
    /\ Filtered
    /\ \E j, m \in 1..Len(tokens) :
          /\ j < m
          /\ tokens[j].start = tokens[m].start
          /\ TokenLength(tokens[m]) > 0
          /\ TokenLength(tokens[j]) > TokenLength(tokens[m])
          /\ Kept(tokens[m])
          /\ ~Kept(tokens[j])

(***************************************************************************)
(* MarkdownPatterns (src/src/utils/markdownParser.ts)                      *)
(*                                                                         *)
(* Offsets are 0-based as in the source: the character at offset q of s is *)
(* s[q + 1].  Each pattern is an operator giving the match the regular     *)
(* expression finds when it is tried at offset q: its length and its       *)
(* groups, after the backtracking the expression allows.                   *)
(***************************************************************************)
Space == Whitespace \cup {"\n"}      \* members of \s used by the tokenizer

CharAt(s, q) == IF 0 <= q /\ q < Len(s) THEN s[q + 1] ELSE ""

\* s.substring(a, b)
Slice(s, a, b) ==
    LET from == IF a < 0 THEN 0 ELSE a
        to == IF b > Len(s) THEN Len(s) ELSE b
    IN  IF from >= to THEN <<>> ELSE SubSeq(s, from + 1, to)

\* number of characters of s from offset q on that are in S
Run(s, q, S) == RunLength(s, q + 1, S)

\* number of characters of s from offset q on that are not in S
RECURSIVE RunNot(_, _, _)
RunNot(s, q, S) ==
    IF q < Len(s) /\ s[q + 1] \notin S THEN 1 + RunNot(s, q + 1, S) ELSE 0

\* ^ and $ of a regular expression with the m flag
LineStart(s, q) == q = 0 \/ CharAt(s, q - 1) = "\n"
LineEnd(s, q) == q = Len(s) \/ CharAt(s, q) = "\n"

Largest(S) == CHOOSE x \in S : \A y \in S : y <= x

NoMatch == [ok |-> FALSE, index |-> 0, len |-> 0,
            g1 |-> <<>>, g2 |-> <<>>, g3 |-> <<>>, g4 |-> <<>>]

Matched(q, len, g1, g2, g3, g4) ==
    [ok |-> TRUE, index |-> q, len |-> len,
     g1 |-> g1, g2 |-> g2, g3 |-> g3, g4 |-> g4]

\* \s+(.+)$ tried at offset q: \s+ takes the whole run of whitespace and
\* gives characters back until (.+) has a character of the line to take;
\* w is what \s+ keeps and e the offset where (.+) ends
SpacesThenText(s, q) ==
    LET W == {w \in 1..Run(s, q, Space) :
                 q + w < Len(s) /\ CharAt(s, q + w) # "\n"}
        w == Largest(W)
    IN  IF W = {} THEN [ok |-> FALSE, w |-> 0, e |-> q]
        ELSE [ok |-> TRUE, w |-> w, e |-> q + w + RunNot(s, q + w, {"\n"})]

\* \s*$ tried at offset q: the longest run of whitespace ending at a line end
SpacesThenLineEnd(s, q) ==
    LET K == {n \in 0..Run(s, q, Space) : LineEnd(s, q + n)}
    IN  IF K = {} THEN [ok |-> FALSE, e |-> q]
        ELSE [ok |-> TRUE, e |-> q + Largest(K)]

\* header: /^(#{1,6})\s+(.+)$/gm
MatchHeader(s, q) ==
    LET n == Run(s, q, {"#"})
        t == SpacesThenText(s, q + n)
    IN  IF LineStart(s, q) /\ n >= 1 /\ n <= 6 /\ t.ok
        THEN Matched(q, t.e - q, Slice(s, q, q + n),
                     Slice(s, q + n + t.w, t.e), <<>>, <<>>)
        ELSE NoMatch

\* codeBlock: /^(```|~~~)([^\n]*)\n([\s\S]*?)\n\1\s*$/gm
MatchCodeBlock(s, q) ==
    LET fence == Slice(s, q, q + 3)
        infoEnd == q + 3 + RunNot(s, q + 3, {"\n"})
        \* offsets of a newline followed by the closing fence and \s*$
        B == {b \in (infoEnd + 1)..(Len(s) - 4) :
                 /\ CharAt(s, b) = "\n"
                 /\ Slice(s, b + 1, b + 4) = fence
                 /\ SpacesThenLineEnd(s, b + 4).ok}
        b == Least(B)
    IN  IF /\ LineStart(s, q)
           /\ q + 3 <= Len(s)
           /\ fence \in {<<Backtick, Backtick, Backtick>>, <<"~", "~", "~">>}
           /\ CharAt(s, infoEnd) = "\n"
           /\ B # {}
        THEN Matched(q, SpacesThenLineEnd(s, b + 4).e - q, fence,
                     Slice(s, q + 3, infoEnd), Slice(s, infoEnd + 1, b), <<>>)
        ELSE NoMatch

\* inlineCode: /(`+)((?:(?!`).)*?)\1/g
MatchInlineCode(s, q) ==
    LET r == Run(s, q, {Backtick})
        c == RunNot(s, q + r, {Backtick, "\n"})
        half == r \div 2
    IN  IF r >= 1 /\ Run(s, q + r + c, {Backtick}) >= r
        THEN \* the whole run is the marker
             Matched(q, 2 * r + c, Slice(s, q, q + r),
                     Slice(s, q + r, q + r + c), <<>>, <<>>)
        ELSE IF half >= 1
        THEN \* the run is split: a marker, no code, the marker again
             Matched(q, 2 * half, Slice(s, q, q + half), <<>>, <<>>, <<>>)
        ELSE NoMatch

\* link: /\[([^\]]*?)\]\(([^)]+)\)/g
MatchLink(s, q) ==
    LET e == q + 1 + RunNot(s, q + 1, {"]"})     \* offset of the first ']'
        u == RunNot(s, e + 2, {")"})
    IN  IF /\ CharAt(s, q) = "["
           /\ CharAt(s, e) = "]"
           /\ CharAt(s, e + 1) = "("
           /\ u >= 1
           /\ CharAt(s, e + 2 + u) = ")"
        THEN Matched(q, e + 3 + u - q, Slice(s, q + 1, e),
                     Slice(s, e + 2, e + 2 + u), <<>>, <<>>)
        ELSE NoMatch

\* image: /!\[([^\]]*?)\]\(([^)]+)\)/g
MatchImage(s, q) ==
    LET l == MatchLink(s, q + 1)
    IN  IF CharAt(s, q) = "!" /\ l.ok
        THEN Matched(q, l.len + 1, l.g1, l.g2, <<>>, <<>>)
        ELSE NoMatch

\* unorderedList: /^(\s*)([*+-])\s+(.+)$/gm
MatchUnorderedList(s, q) ==
    LET ind == Run(s, q, Space)
        t == SpacesThenText(s, q + ind + 1)
    IN  IF /\ LineStart(s, q)
           /\ CharAt(s, q + ind) \in {"*", "+", "-"}
           /\ t.ok
        THEN Matched(q, t.e - q, Slice(s, q, q + ind),
                     Slice(s, q + ind, q + ind + 1),
                     Slice(s, q + ind + 1 + t.w, t.e), <<>>)
        ELSE NoMatch

\* orderedList: /^(\s*)(\d+\.)\s+(.+)$/gm
MatchOrderedList(s, q) ==
    LET ind == Run(s, q, Space)
        d == Run(s, q + ind, Digit)
        t == SpacesThenText(s, q + ind + d + 1)
    IN  IF /\ LineStart(s, q)
           /\ d >= 1
           /\ CharAt(s, q + ind + d) = "."
           /\ t.ok
        THEN Matched(q, t.e - q, Slice(s, q, q + ind),
                     Slice(s, q + ind, q + ind + d + 1),
                     Slice(s, q + ind + d + 1 + t.w, t.e), <<>>)
        ELSE NoMatch

\* taskList: /^(\s*)([*+-])\s+(\[[ x]\])\s+(.+)$/gm
MatchTaskList(s, q) ==
    LET ind == Run(s, q, Space)
        w1 == Run(s, q + ind + 1, Space)
        box == q + ind + 1 + w1
        t == SpacesThenText(s, box + 3)
    IN  IF /\ LineStart(s, q)
           /\ CharAt(s, q + ind) \in {"*", "+", "-"}
           /\ w1 >= 1
           /\ CharAt(s, box) = "["
           /\ CharAt(s, box + 1) \in {" ", "x"}
           /\ CharAt(s, box + 2) = "]"
           /\ t.ok
        THEN Matched(q, t.e - q, Slice(s, q, q + ind),
                     Slice(s, q + ind, q + ind + 1),
                     Slice(s, box, box + 3),
                     Slice(s, box + 3 + t.w, t.e))
        ELSE NoMatch

\* (marker)((?:(?!\1).)+?)\1 for a two-character marker, tried at offset q:
\* the text runs to the first later occurrence of the marker
MatchDelimited(s, q, markers) ==
    LET marker == Slice(s, q, q + 2)
        C == {c \in (q + 3)..(Len(s) - 2) : Slice(s, c, c + 2) = marker}
        c == Least(C)
    IN  IF /\ q + 2 <= Len(s)
           /\ marker \in markers
           /\ Slice(s, q + 2, q + 4) # marker
           /\ C # {}
           /\ \A x \in (q + 2)..(c - 1) : CharAt(s, x) # "\n"
        THEN Matched(q, c + 2 - q, marker, Slice(s, q + 2, c), <<>>, <<>>)
        ELSE NoMatch

\* bold: /(\*\*|__)((?:(?!\1).)+?)\1/g
MatchBold(s, q) == MatchDelimited(s, q, {<<"*", "*">>, <<"_", "_">>})

\* strikethrough: /(~~)((?:(?!~~).)+?)\1/g
MatchStrikethrough(s, q) == MatchDelimited(s, q, {<<"~", "~">>})

\* italic: /(\*|_)((?:(?!\*\*|__|\1).)+?)\1/g
\* the text stops at the first character it may not take; the match needs
\* the marker there
MatchItalic(s, q) ==
    LET marker == CharAt(s, q)
        Stops(x) == \/ x >= Len(s)
                    \/ CharAt(s, x) \in {"\n", marker}
                    \/ Slice(s, x, x + 2) \in {<<"*", "*">>, <<"_", "_">>}
        c == Least({x \in (q + 1)..Len(s) : Stops(x)})
    IN  IF /\ marker \in {"*", "_"}
           /\ c >= q + 2
           /\ CharAt(s, c) = marker
        THEN Matched(q, c + 1 - q, <<marker>>, Slice(s, q + 1, c), <<>>, <<>>)
        ELSE NoMatch

\* blockquote: /^(\s*)(>+)\s*(.*)$/gm
MatchBlockquote(s, q) ==
    LET ind == Run(s, q, Space)
        g == Run(s, q + ind, {">"})
        w == Run(s, q + ind + g, Space)
        e == q + ind + g + w + RunNot(s, q + ind + g + w, {"\n"})
    IN  IF LineStart(s, q) /\ g >= 1
        THEN Matched(q, e - q, Slice(s, q, q + ind),
                     Slice(s, q + ind, q + ind + g),
                     Slice(s, q + ind + g + w, e), <<>>)
        ELSE NoMatch

\* hr: /^(\s*)([-*_]){3,}\s*$/gm
MatchHorizontalRule(s, q) ==
    LET ind == Run(s, q, Space)
        r == Run(s, q + ind, {"-", "*", "_"})
        t == SpacesThenLineEnd(s, q + ind + r)
    IN  IF LineStart(s, q) /\ r >= 3 /\ t.ok
        THEN Matched(q, t.e - q, Slice(s, q, q + ind),
                     Slice(s, q + ind + r - 1, q + ind + r), <<>>, <<>>)
        ELSE NoMatch

\* table: /^(\s*\|.+\|\s*)$/gm -- .+ runs to the last '|' of the line that
\* is followed by whitespace and the line end
MatchTable(s, q) ==
    LET ind == Run(s, q, Space)
        a == q + ind + 1
        eol == a + RunNot(s, a, {"\n"})
        X == {x \in (a + 1)..(eol - 1) :
                 CharAt(s, x) = "|" /\ SpacesThenLineEnd(s, x + 1).ok}
        x == Largest(X)
    IN  IF LineStart(s, q) /\ CharAt(s, q + ind) = "|" /\ X # {}
        THEN LET e == SpacesThenLineEnd(s, x + 1).e
             IN  Matched(q, e - q, Slice(s, q, e), <<>>, <<>>, <<>>)
        ELSE NoMatch

\* the matches matchAll yields, given the match M[q] found at each offset
\* q < n: the leftmost one, then the leftmost one behind it, and so on
RECURSIVE MatchesFrom(_, _, _)
MatchesFrom(M, q, n) ==
    IF q >= n THEN <<>>
    ELSE IF M[q].ok THEN <<M[q]>> \o MatchesFrom(M, q + M[q].len, n)
    ELSE MatchesFrom(M, q + 1, n)

\* Array.from(content.matchAll(pattern)), for each pattern
MatchAllOf(M, n) == MatchesFrom(M, 0, n)

(***************************************************************************)
(* MarkdownParser: the passes of parse()                                   *)
(*                                                                         *)
(* A pass is an operator from the content and the token list so far to the *)
(* token list after it.  The field `raw` of a token always equals          *)
(* `content` and is left out.                                              *)
(***************************************************************************)
Token(type, start, end, str) ==
    [type |-> type, start |-> start, end |-> end, content |-> str]

RECURSIVE Concat(_)
Concat(seqs) == IF seqs = <<>> THEN <<>> ELSE Head(seqs) \o Concat(Tail(seqs))

\* for (const match of matches) this.tokens.push(...): pushed[j] holds the
\* tokens pushed for the j-th match
PushForEach(toks, pushed) == toks \o Concat(pushed)

\* textStart = match.index + marker.length + 1
HeaderTextStart(index, marker) == index + Len(marker) + 1

parseHeaders(c, toks) ==
    LET matches == MatchAllOf([q \in 0..(Len(c) - 1) |-> MatchHeader(c, q)], Len(c))
    IN  PushForEach(toks, [j \in 1..Len(matches) |->
        LET m == matches[j] IN <<Token("header-marker", m.index, m.index + Len(m.g1), m.g1),
                     Token("header", HeaderTextStart(m.index, m.g1),
                           m.index + m.len, m.g2)>>])

parseCodeBlocks(c, toks) ==
    LET matches == MatchAllOf([q \in 0..(Len(c) - 1) |-> MatchCodeBlock(c, q)], Len(c))
    IN  PushForEach(toks, [j \in 1..Len(matches) |->
        LET m == matches[j] IN <<Token("code", m.index, m.index + m.len,
                           Slice(c, m.index, m.index + m.len))>>])

CodeToken(m) ==
    <<Token("code", m.index + Len(m.g1), m.index + Len(m.g1) + Len(m.g2), m.g2)>>

parseInlineCode(c, toks) ==
    LET matches == MatchAllOf([q \in 0..(Len(c) - 1) |-> MatchInlineCode(c, q)], Len(c))
    IN  PushForEach(toks, [j \in 1..Len(matches) |->
        LET m == matches[j] IN <<Token("code-marker", m.index, m.index + Len(m.g1), m.g1)>>
                   \o CodeToken(m)
                   \o <<Token("code-marker", m.index + Len(m.g1) + Len(m.g2),
                              m.index + m.len, m.g1)>>])

\* str.indexOf(ch): 0-based offset of the first ch, -1 when there is none
IndexOf(str, ch) ==
    IF \E j \in 1..Len(str) : str[j] = ch
    THEN RunNot(str, 0, {ch})
    ELSE -1

parseLinks(c, toks) ==
    LET matches == MatchAllOf([q \in 0..(Len(c) - 1) |-> MatchLink(c, q)], Len(c))
    IN  PushForEach(toks, [j \in 1..Len(matches) |->
        LET m == matches[j] IN
            LET textStart == m.index + 1
                urlStart == m.index
                              + IndexOf(Slice(c, m.index, m.index + m.len), "(") + 1
            IN  <<Token("link", m.index, m.index + m.len,
                        Slice(c, m.index, m.index + m.len)),
                  Token("link-text", textStart, textStart + Len(m.g1), m.g1),
                  Token("link-url", urlStart, urlStart + Len(m.g2), m.g2)>>])

parseImages(c, toks) ==
    LET matches == MatchAllOf([q \in 0..(Len(c) - 1) |-> MatchImage(c, q)], Len(c))
    IN  PushForEach(toks, [j \in 1..Len(matches) |->
        LET m == matches[j] IN
            LET altStart == m.index + 2
                urlStart == m.index
                              + IndexOf(Slice(c, m.index, m.index + m.len), "(") + 1
            IN  <<Token("image", m.index, m.index + m.len,
                        Slice(c, m.index, m.index + m.len)),
                  Token("image-alt", altStart, altStart + Len(m.g1), m.g1),
                  Token("image-url", urlStart, urlStart + Len(m.g2), m.g2)>>])

\* isInsideToken(start, end)
isInsideToken(toks, start, end) ==
    \E j \in 1..Len(toks) :
        \/ start >= toks[j].start /\ start < toks[j].end
        \/ end > toks[j].start /\ end <= toks[j].end
        \/ start <= toks[j].start /\ end >= toks[j].end

\* opening marker, text, closing marker
DelimitedTokens(m, kind, markerKind) ==
    <<Token(markerKind, m.index, m.index + Len(m.g1), m.g1),
      Token(kind, m.index + Len(m.g1), m.index + Len(m.g1) + Len(m.g2), m.g2),
      Token(markerKind, m.index + Len(m.g1) + Len(m.g2), m.index + m.len, m.g1)>>

\* the for loop of parseBold / parseItalic from match idx on: a match is
\* pushed unless isInsideToken finds it inside a token pushed so far
RECURSIVE PushUnlessInside(_, _, _, _, _)
PushUnlessInside(toks, matches, idx, kind, markerKind) ==
    IF idx > Len(matches) THEN toks
    ELSE LET m == matches[idx]
         IN  PushUnlessInside(
                 IF ~isInsideToken(toks, m.index, m.index + m.len)
                 THEN toks \o DelimitedTokens(m, kind, markerKind)
                 ELSE toks,
                 matches, idx + 1, kind, markerKind)

parseBold(c, toks) ==
    PushUnlessInside(toks, MatchAllOf([q \in 0..(Len(c) - 1) |-> MatchBold(c, q)], Len(c)), 1, "bold", "bold-marker")

parseItalic(c, toks) ==
    PushUnlessInside(toks, MatchAllOf([q \in 0..(Len(c) - 1) |-> MatchItalic(c, q)], Len(c)), 1, "italic", "italic-marker")

parseStrikethrough(c, toks) ==
    LET matches == MatchAllOf([q \in 0..(Len(c) - 1) |-> MatchStrikethrough(c, q)], Len(c))
    IN  PushForEach(toks, [j \in 1..Len(matches) |->
        LET m == matches[j] IN DelimitedTokens(m, "strikethrough", "strikethrough-marker")])

parseBlockquotes(c, toks) ==
    LET matches == MatchAllOf([q \in 0..(Len(c) - 1) |-> MatchBlockquote(c, q)], Len(c))
    IN  PushForEach(toks, [j \in 1..Len(matches) |->
        LET m == matches[j] IN
            LET markerStart == m.index + Len(m.g1)
                textStart == markerStart + Len(m.g2) + 1
            IN  <<Token("blockquote-marker", markerStart,
                        markerStart + Len(m.g2), m.g2)>>
                \o (IF Trim(m.g3) # <<>>
                    THEN <<Token("blockquote", textStart, m.index + m.len, m.g3)>>
                    ELSE <<>>)])

parseHorizontalRules(c, toks) ==
    LET matches == MatchAllOf([q \in 0..(Len(c) - 1) |-> MatchHorizontalRule(c, q)], Len(c))
    IN  PushForEach(toks, [j \in 1..Len(matches) |->
        LET m == matches[j] IN <<Token("hr", m.index, m.index + m.len,
                           Slice(c, m.index, m.index + m.len))>>])

parseTables(c, toks) ==
    LET matches == MatchAllOf([q \in 0..(Len(c) - 1) |-> MatchTable(c, q)], Len(c))
    IN  PushForEach(toks, [j \in 1..Len(matches) |->
        LET m == matches[j] IN <<Token("table", m.index, m.index + m.len,
                           Slice(c, m.index, m.index + m.len))>>])

\* parseInlineElements() of a parser constructed on `str`
parseInlineElements(str) ==
    parseStrikethrough(str,
        parseImages(str,
            parseLinks(str,
                parseInlineCode(str,
                    parseItalic(str,
                        parseBold(str, <<>>))))))

\* inlineTokens.map with only `start` moved by startOffset
OffsetTokensStartOnly(inlineTokens, startOffset) ==
    [j \in 1..Len(inlineTokens) |->
        [inlineTokens[j] EXCEPT !.start = @ + startOffset]]

\* inlineTokens.map(token => ({...token, start + startOffset, end + startOffset}))
OffsetTokens(inlineTokens, startOffset) ==
    [j \in 1..Len(inlineTokens) |->
        [inlineTokens[j] EXCEPT !.start = @ + startOffset,
                                !.end = @ + startOffset]]

\* the tokens parseMarkdownInText(text, startOffset) pushes
parseMarkdownInText(str, startOffset) ==
    OffsetTokens(parseInlineElements(str), startOffset)

\* the tokens parseRegularListItem pushes for a match
parseRegularListItem(m) ==
    LET markerStart == m.index + Len(m.g1)
        textStart == markerStart + Len(m.g2) + 1
    IN  <<Token("list-marker", markerStart, markerStart + Len(m.g2), m.g2)>>
        \o parseMarkdownInText(m.g3, textStart)

\* the tokens parseTaskListItem pushes for a match
parseTaskListItem(m) ==
    LET listMarkerStart == m.index + Len(m.g1)
        checkboxStart == listMarkerStart + Len(m.g2) + 1
        textStart == checkboxStart + Len(m.g3) + 1
    IN  <<Token("list-marker", listMarkerStart,
                listMarkerStart + Len(m.g2), m.g2),
          Token("list-marker", checkboxStart, checkboxStart + Len(m.g3), m.g3)>>
        \o parseMarkdownInText(m.g4, textStart)

\* parseListType for the three patterns, in the order of parseLists
parseLists(c, toks) ==
    LET unordered == MatchAllOf([q \in 0..(Len(c) - 1) |-> MatchUnorderedList(c, q)], Len(c))
        ordered == MatchAllOf([q \in 0..(Len(c) - 1) |-> MatchOrderedList(c, q)], Len(c))
        task == MatchAllOf([q \in 0..(Len(c) - 1) |-> MatchTaskList(c, q)], Len(c))
    IN  PushForEach(
            PushForEach(
                PushForEach(toks, [j \in 1..Len(unordered) |->
                                      parseRegularListItem(unordered[j])]),
                [j \in 1..Len(ordered) |-> parseRegularListItem(ordered[j])]),
            [j \in 1..Len(task) |-> parseTaskListItem(task[j])])

\* this.tokens.sort((a, b) => a.start - b.start)
SortTokens(toks) == StableSort(toks, ByStart(toks))

(***************************************************************************)
(* parseMarkdown(content), one pass at a time                              *)
(***************************************************************************)
\* this.parseHeaders()
ParseHeaders ==
    /\ pc = "headers"
    /\ tokens' = parseHeaders(source, tokens)
    /\ pc' = "codeBlocks"
    /\ UNCHANGED <<slugVars, scanVars, appVars, tocVars, syncVars, source, filteredTokens>>

\* this.parseCodeBlocks()
ParseCodeBlocks ==
    /\ pc = "codeBlocks"
    /\ tokens' = parseCodeBlocks(source, tokens)
    /\ pc' = "inlineCode"
    /\ UNCHANGED <<slugVars, scanVars, appVars, tocVars, syncVars, source, filteredTokens>>

\* this.parseInlineCode()
ParseInlineCode ==
    /\ pc = "inlineCode"
    /\ tokens' = parseInlineCode(source, tokens)
    /\ pc' = "links"
    /\ UNCHANGED <<slugVars, scanVars, appVars, tocVars, syncVars, source, filteredTokens>>

\* this.parseLinks()
ParseLinks ==
    /\ pc = "links"
    /\ tokens' = parseLinks(source, tokens)
    /\ pc' = "images"
    /\ UNCHANGED <<slugVars, scanVars, appVars, tocVars, syncVars, source, filteredTokens>>

\* this.parseImages()
ParseImages ==
    /\ pc = "images"
    /\ tokens' = parseImages(source, tokens)
    /\ pc' = "lists"
    /\ UNCHANGED <<slugVars, scanVars, appVars, tocVars, syncVars, source, filteredTokens>>

\* this.parseLists()
ParseLists ==
    /\ pc = "lists"
    /\ tokens' = parseLists(source, tokens)
    /\ pc' = "bold"
    /\ UNCHANGED <<slugVars, scanVars, appVars, tocVars, syncVars, source, filteredTokens>>

\* this.parseBold()
ParseBold ==
    /\ pc = "bold"
    /\ tokens' = parseBold(source, tokens)
    /\ pc' = "italic"
    /\ UNCHANGED <<slugVars, scanVars, appVars, tocVars, syncVars, source, filteredTokens>>

\* this.parseItalic()
ParseItalic ==
    /\ pc = "italic"
    /\ tokens' = parseItalic(source, tokens)
    /\ pc' = "strikethrough"
    /\ UNCHANGED <<slugVars, scanVars, appVars, tocVars, syncVars, source, filteredTokens>>

\* this.parseStrikethrough()
ParseStrikethrough ==
    /\ pc = "strikethrough"
    /\ tokens' = parseStrikethrough(source, tokens)
    /\ pc' = "blockquotes"
    /\ UNCHANGED <<slugVars, scanVars, appVars, tocVars, syncVars, source, filteredTokens>>

\* this.parseBlockquotes()
ParseBlockquotes ==
    /\ pc = "blockquotes"
    /\ tokens' = parseBlockquotes(source, tokens)
    /\ pc' = "hr"
    /\ UNCHANGED <<slugVars, scanVars, appVars, tocVars, syncVars, source, filteredTokens>>

\* this.parseHorizontalRules()
ParseHorizontalRules ==
    /\ pc = "hr"
    /\ tokens' = parseHorizontalRules(source, tokens)
    /\ pc' = "tables"
    /\ UNCHANGED <<slugVars, scanVars, appVars, tocVars, syncVars, source, filteredTokens>>

\* this.parseTables()
ParseTables ==
    /\ pc = "tables"
    /\ tokens' = parseTables(source, tokens)
    /\ pc' = "sort"
    /\ UNCHANGED <<slugVars, scanVars, appVars, tocVars, syncVars, source, filteredTokens>>

\* sort and return this.tokens
ReturnTokens ==
    /\ pc = "sort"
    /\ tokens' = SortTokens(tokens)
    /\ pc' = "parsed"
    /\ UNCHANGED <<slugVars, scanVars, appVars, tocVars, syncVars, source, filteredTokens>>

NextParse ==
    \/ ParseHeaders
    \/ ParseCodeBlocks
    \/ ParseInlineCode
    \/ ParseLinks
    \/ ParseImages
    \/ ParseLists
    \/ ParseBold
    \/ ParseItalic
    \/ ParseStrikethrough
    \/ ParseBlockquotes
    \/ ParseHorizontalRules
    \/ ParseTables
    \/ ReturnTokens

\* new MarkdownParser(content).parse(): this.tokens = []
InitParseWith(sources) ==
    /\ AppIdle
    /\ pc = "headers"
    /\ source \in sources
    /\ tokens = <<>>
    /\ filteredTokens = <<>>
    /\ SlugIdle
    /\ ScanIdle
    /\ TocIdle
    /\ SyncIdle

\* every concatenation of at most n pieces of F
RECURSIVE Pieces(_, _)
Pieces(F, n) ==
    IF n = 0 THEN {<<>>}
    ELSE LET shorter == Pieces(F, n - 1)
         IN  shorter \cup {f \o t : f \in F, t \in shorter}

MaxPieces == 3       \* most pieces a tokenized source is put together from

\* the pieces a tokenized source is put together from
SourcePieces ==
    { <<"#", " ">>, <<"-", " ">>, <<">">>, <<" ">>, <<"a">>, <<"\n">>,
      <<Backtick>>, <<Backtick, Backtick>>,
      <<"[", "]", "(", "u", ")">>, <<"[", "a", "]", "(", "u", ")">>, <<"!">>,
      <<"*", "i", "*">>, <<"*", "*", "b", "*", "*">>,
      <<"1", ".", " ">>, <<"[", "x", "]", " ">>,
      <<"~", "~", "s", "~", "~">>, <<"-", "-", "-">>, <<"|">>,
      <<"~", "~", "~">> }

InitParse == InitParseWith(Pieces(SourcePieces, MaxPieces))

SpecParse == InitParse /\ [][NextParse]_vars


(***************************************************************************)
(* Properties of the tokens parseMarkdown returns                          *)
(***************************************************************************)
Returned == pc = "parsed"

IsEmptyToken(t) == t.start = t.end

C17_ContentIsSubstring ==
    Returned =>
        \A j \in 1..Len(tokens) :
            tokens[j].content = Slice(source, tokens[j].start, tokens[j].end)


(***************************************************************************)
(* parse() on sources built from emphasis, list and link pieces            *)
(***************************************************************************)
MaxEmphasisPieces == 4   \* most pieces such a source is put together from

EmphasisPieces ==
    { <<"-", " ">>, <<"-", " ", "[", "x", "]", " ">>, <<" ">>,
      <<"*", "*", "a", "*", "*">>, <<"*", "a", "*">>,
      <<"*", "*", "a", " ">>, <<" ", "a", "*", "*">>,
      <<"[", "a", "]", "(", "*", "a", "*", ")">> }

InitEmphasis == InitParseWith(Pieces(EmphasisPieces, MaxEmphasisPieces))

SpecEmphasis == InitEmphasis /\ [][NextParse]_vars

IsBoldToken(t) == t.type \in {"bold", "bold-marker"}

IsItalicToken(t) == t.type \in {"italic", "italic-marker"}

\* the tokens a step of parseBold / parseItalic pushed come in triples
\* (marker, text, marker); the range of the match whose triple starts at j
MatchRange(toks, j) == [start |-> toks[j].start, end |-> toks[j + 2].end]

\* C20, the rule of the passes: a step of parseBold or parseItalic of parse()
\* pushes the tokens of a match only if the range of the match overlaps no
\* token pushed before them.
C20_PassSkipsOverlappingMatch ==
    [][(pc \in {"bold", "italic"}) =>
          (\A j \in (Len(tokens) + 1)..Len(tokens') :
               ((j - Len(tokens)) % 3 = 1) =>
                   (\A e \in 1..(j - 1) :
                        ~Overlaps(MatchRange(tokens', j), tokens'[e])))]_vars

\* C20: the tokens parseMarkdown returns never contain an italic or
\* italic-marker token that overlaps a bold or bold-marker token.
C20_NoItalicOverlapsBold ==
    Returned =>
        \A j, e \in 1..Len(tokens) :
            IsItalicToken(tokens[j]) /\ IsBoldToken(tokens[e]) =>
                ~Overlaps(tokens[j], tokens[e])

\* the same, for the sources all of whose tokens carry the substring of
\* their range as content
C20_NoItalicOverlapsBoldWhenOffsetsExact ==
    Returned /\ (\A j \in 1..Len(tokens) :
                    tokens[j].content
                        = Slice(source, tokens[j].start, tokens[j].end)) =>
        \A j, e \in 1..Len(tokens) :
            IsItalicToken(tokens[j]) /\ IsBoldToken(tokens[e]) =>
                ~Overlaps(tokens[j], tokens[e])

(***************************************************************************)
(* validateMarkdown (src/src/utils/markdownParser.ts)                      *)
(***************************************************************************)
UnmatchedBold == "Unmatched bold markers (**) detected"
UnmatchedItalic == "Unmatched italic markers (*) detected"
\* the message names the backtick, written here as in Backtick
UnmatchedCode == "Unmatched code markers (BACKTICK) detected"
EmptyLinkText == "Empty link text detected"

\* tokens.filter(t => t.type === type).length
CountOfType(toks, type) == Cardinality({j \in 1..Len(toks) : toks[j].type = type})

\* !link.content.trim()
IsBlank(str) == \A j \in 1..Len(str) : str[j] \in Space

\* the for loop over the link-text tokens, from token idx on
RECURSIVE EmptyLinkIssues(_, _)
EmptyLinkIssues(toks, idx) ==
    IF idx > Len(toks) THEN <<>>
    ELSE (IF toks[idx].type = "link-text" /\ IsBlank(toks[idx].content)
          THEN <<EmptyLinkText>> ELSE <<>>)
         \o EmptyLinkIssues(toks, idx + 1)

\* the issues validateMarkdown collects from the tokens parse() returned
validateMarkdown(toks) ==
    (IF CountOfType(toks, "bold-marker") % 2 # 0 THEN <<UnmatchedBold>> ELSE <<>>)
    \o (IF CountOfType(toks, "italic-marker") % 2 # 0
        THEN <<UnmatchedItalic>> ELSE <<>>)
    \o (IF CountOfType(toks, "code-marker") % 2 # 0
        THEN <<UnmatchedCode>> ELSE <<>>)
    \o EmptyLinkIssues(toks, 1)

\* validateMarkdown after parser.parse() has returned
CheckMarkers ==
    /\ pc = "parsed"
    /\ issues' = validateMarkdown(tokens)
    /\ pc' = "validated"
    /\ UNCHANGED <<slugVars, scanVars, extVars, fileVars, scrollVars, highlighted>>

NextValidate == NextParse \/ CheckMarkers

MaxValidatePieces == 3   \* most pieces a validated source is put together from

ValidatePieces ==
    { <<"*", "*">>, <<"*">>, <<Backtick>>, <<"a">>, <<" ">>,
      <<"*", "*", "a", "*", "*">>, <<"*", "a", "*">>,
      <<"[", "]", "(", "u", ")">>, <<"[", " ", "]", "(", "u", ")">>,
      <<"[", "a", "]", "(", "u", ")">>, <<"-", " ">> }

InitValidate == InitParseWith(Pieces(ValidatePieces, MaxValidatePieces))

SpecValidate == InitValidate /\ [][NextValidate]_vars

Validated == pc = "validated"

Reported(issue) == \E j \in 1..Len(issues) : issues[j] = issue

\* the '**' delimiters of s from offset q on, read from left to right
RECURSIVE BoldDelimiters(_, _)
BoldDelimiters(s, q) ==
    IF q >= Len(s) THEN 0
    ELSE IF CharAt(s, q) = "*" /\ CharAt(s, q + 1) = "*"
         THEN 1 + BoldDelimiters(s, q + 2)
         ELSE BoldDelimiters(s, q + 1)

\* the '*' delimiters of s from offset q on that are not half of a '**'
RECURSIVE ItalicDelimiters(_, _)
ItalicDelimiters(s, q) ==
    IF q >= Len(s) THEN 0
    ELSE IF CharAt(s, q) = "*" /\ CharAt(s, q + 1) = "*"
         THEN ItalicDelimiters(s, q + 2)
         ELSE (IF CharAt(s, q) = "*" THEN 1 ELSE 0) + ItalicDelimiters(s, q + 1)

\* the backticks of s
CodeDelimiters(s) == Cardinality({j \in 1..Len(s) : s[j] = Backtick})

\* C21: for a source with an odd number of '**' (resp. '*', resp. backtick)
\* delimiters validateMarkdown returns a list containing the bold (resp.
\* italic, resp. code) message.
C21_UnmatchedMarkersReported ==
    Validated =>
        /\ BoldDelimiters(source, 0) % 2 = 1 => Reported(UnmatchedBold)
        /\ ItalicDelimiters(source, 0) % 2 = 1 => Reported(UnmatchedItalic)
        /\ CodeDelimiters(source) % 2 = 1 => Reported(UnmatchedCode)

\* what the code does instead: marker tokens are pushed two per match, so
\* none of the three messages is ever returned; only empty link texts are.
C21_OnlyEmptyLinksReported ==
    Validated =>
        /\ \A j \in 1..Len(issues) : issues[j] = EmptyLinkText
        /\ Len(issues) = Cardinality({j \in 1..Len(tokens) :
                             /\ tokens[j].type = "link-text"
                             /\ IsBlank(tokens[j].content)})

(***************************************************************************)
(* getHighlightedContent (src/src/components/SyntaxHighlightedEditor.tsx)  *)
(*                                                                         *)
(* The HTML string is a sequence of units <<kind, value>>: a character     *)
(* <<"char", c>>, a character reference <<"entity", name>>, an opening tag *)
(* <<"open", cssClass>> or the closing tag <<"close", "span">>.            *)
(***************************************************************************)
\* div.textContent = text; return div.innerHTML: a text node is serialized
\* with '&', '<' and '>' replaced by character references
EscapeChar(c) ==
    CASE c = "&" -> <<"entity", "amp">>
      [] c = "<" -> <<"entity", "lt">>
      [] c = ">" -> <<"entity", "gt">>
      [] OTHER -> <<"char", c>>

escapeHtml(str) == [j \in 1..Len(str) |-> EscapeChar(str[j])]

\* `<span class="md-${token.type}">${escapeHtml(token.content)}</span>`
SpanOf(token) ==
    <<<<"open", token.type>>>> \o escapeHtml(token.content)
        \o <<<<"close", "span">>>>

\* the for loop over filteredTokens from token idx on, then the remaining
\* text and the final newline
RECURSIVE HighlightFrom(_, _, _, _, _)
HighlightFrom(c, toks, idx, lastIndex, res) ==
    IF idx > Len(toks)
    THEN res
         \o (IF lastIndex < Len(c) THEN escapeHtml(Slice(c, lastIndex, Len(c)))
             ELSE <<>>)
         \o <<<<"char", "\n">>>>
    ELSE LET token == toks[idx]
             beforeText == IF token.start > lastIndex
                           THEN escapeHtml(Slice(c, lastIndex, token.start))
                           ELSE <<>>
         IN  HighlightFrom(c, toks, idx + 1, token.end,
                           res \o beforeText \o SpanOf(token))

\* if (!content) return ''
ReturnNoHighlight ==
    /\ pc = "highlight"
    /\ source = <<>>
    /\ highlighted' = <<>>
    /\ pc' = "highlighted"
    /\ UNCHANGED <<slugVars, scanVars, extVars, fileVars, scrollVars, issues>>

\* const tokens = parseMarkdown(content): the call
CallParseMarkdown ==
    /\ pc = "highlight"
    /\ source # <<>>
    /\ pc' = "headers"
    /\ UNCHANGED <<slugVars, scanVars, extVars, appVars>>

\* const filteredTokens = filterOverlappingTokens(tokens)
FilterParsedTokens ==
    /\ pc = "parsed"
    /\ filteredTokens' = filterOverlappingTokens(tokens)
    /\ pc' = "filteredParsed"
    /\ UNCHANGED <<slugVars, scanVars, appVars, tocVars, syncVars, source, tokens>>

\* the loop, the remaining text and the final newline
BuildHighlighted ==
    /\ pc = "filteredParsed"
    /\ highlighted' = HighlightFrom(source, filteredTokens, 1, 0, <<>>)
    /\ pc' = "highlighted"
    /\ UNCHANGED <<slugVars, scanVars, extVars, fileVars, scrollVars, issues>>

NextHighlight ==
    \/ ReturnNoHighlight
    \/ CallParseMarkdown
    \/ NextParse
    \/ FilterParsedTokens
    \/ BuildHighlighted

MaxHighlightPieces == 3  \* most pieces an editor content is put together from

HighlightPieces ==
    { <<"#", " ">>, <<" ">>, <<"a">>, <<">">>, <<"&">>, <<"<">>, <<"\n">>,
      <<"*", "*", "a", "*", "*">>, <<Backtick>>, <<"-", " ">>,
      <<"[", "]", "(", "u", ")">> }

InitHighlight ==
    /\ AppIdle
    /\ pc = "highlight"
    /\ source \in Pieces(HighlightPieces, MaxHighlightPieces)
    /\ tokens = <<>>
    /\ filteredTokens = <<>>
    /\ SlugIdle
    /\ ScanIdle
    /\ TocIdle
    /\ SyncIdle

SpecHighlight == InitHighlight /\ [][NextHighlight]_vars

Highlighted == pc = "highlighted"

\* the span markup removed
StripSpans(html) == SelectSeq(html, LAMBDA u : u[1] \in {"char", "entity"})

\* a character reference read back as its character
UnescapeUnit(u) ==
    IF u[1] = "char" THEN u[2]
    ELSE CASE u[2] = "amp" -> "&" [] u[2] = "lt" -> "<" [] u[2] = "gt" -> ">"

\* the text a browser shows for the HTML string
PlainText(html) ==
    LET stripped == StripSpans(html)
    IN  [j \in 1..Len(stripped) |-> UnescapeUnit(stripped[j])]

\* C22: the highlighted output, with the span markup removed and HTML
\* unescaped, is exactly the content followed by one appended newline.
C22_BackdropIsContentPlusNewline ==
    Highlighted => PlainText(highlighted) = source \o <<"\n">>

\* the same for a non-empty content all of whose kept tokens carry the
\* substring of their range as content
C22_BackdropWhenOffsetsExact ==
    (/\ Highlighted
     /\ source # <<>>
     /\ \A j \in 1..Len(filteredTokens) :
            filteredTokens[j].content
                = Slice(source, filteredTokens[j].start, filteredTokens[j].end))
        => PlainText(highlighted) = source \o <<"\n">>

(***************************************************************************)
(* The current file of the application (contexts/AppContext.tsx), its      *)
(* saves, and the auto-save hook (hooks/useAutoSave.ts) as App.tsx wires   *)
(* it.                                                                     *)
(*                                                                         *)
(* A file content is one of a few strings; a Date is a natural number and  *)
(* 0 stands for a null Date (every real Date is later than 0, as every     *)
(* Date is later than new Date(0)).  The completion of a save happens at a *)
(* later Date than every step before it; the Dates read within one step    *)
(* are equal.  currentFile carries the fields of                           *)
(* FileState and of its MarkdownFile that the reducer reads or writes;     *)
(* fileHandle and error are TRUE when the field is not null/undefined.     *)
(* Every file is one that openFile / loadFile read from disk; createFile,  *)
(* duplicateFile and renameFile are not modelled.  The saveFile calls in   *)
(* flight are a bag: their promises settle in any order.                   *)
(*                                                                         *)
(* A handler runs with the state of the latest render; what a callback     *)
(* captured before an await is kept in inFlight.  The hook's effects run   *)
(* as part of the step that changed one of their dependencies.             *)
(***************************************************************************)

MaxSaves == 2

FileIds == {1, 2}

FileContents == {"", "a"}

\* a change detection that takes every edit for a change
HasChangesOnEveryEdit(state, action) ==
    IF action.forceUnsaved # "undefined"
    THEN action.forceUnsaved = "true"
    ELSE TRUE

\* UPDATE_FILE_CONTENT: the value of hasChanges; forceUnsaved is "true",
\* "false" or "undefined"
HasChanges(state, action) ==
    IF action.forceUnsaved # "undefined"
    THEN action.forceUnsaved = "true"
    ELSE action.content # state.originalContent

\* appReducer: the cases that read or write currentFile
appReducer(state, action) ==
    CASE action.type = "SET_CURRENT_FILE" -> action.payload
      [] action.type = "UPDATE_FILE_CONTENT" ->
            IF ~state.open THEN state
            ELSE [state EXCEPT !.content = action.content,
                               !.hasUnsavedChanges = HasChanges(state, action)]
      [] action.type = "MARK_FILE_SAVED" ->
            IF ~state.open THEN state
            ELSE [state EXCEPT !.originalContent = state.content,
                               !.hasUnsavedChanges = FALSE,
                               !.lastSaveTime = action.payload]
      [] action.type = "SET_FILE_LOADING" ->
            IF ~state.open THEN state
            ELSE [state EXCEPT !.isLoading = action.payload]
      [] action.type = "SET_FILE_ERROR" ->
            IF ~state.open THEN state
            ELSE [state EXCEPT !.error = action.payload]
      [] action.type = "CLEAR_CURRENT_FILE" -> NoFile

\* dispatch of several actions, one after the other
RECURSIVE Dispatch(_, _)
Dispatch(state, actions) ==
    IF actions = <<>> THEN state
    ELSE Dispatch(appReducer(state, Head(actions)), Tail(actions))

\* App.tsx: the `enabled` option the hook is called with
Enabled(state, mode) ==
    state.open /\ mode # "viewer" /\ state.hasUnsavedChanges

\* App.tsx: the `content` option the hook is called with
HookContent(state) == IF state.open THEN state.content ELSE ""

\* useAutoSave: the effects "Track content changes" and "Sync with external
\* save time", run after a render in which content, lastSaved or
\* lastSaveTime changed.  Both read the state of that render; the updates
\* they queue are applied in order, so the second effect's win.
RunEffects(hook, state, date) ==
    LET newContent == HookContent(state)
        lastSaveTime == IF state.open THEN state.lastSaveTime ELSE 0
        tracked == newContent # hook.lastContentRef
        synced == lastSaveTime # 0 /\ lastSaveTime > hook.lastSaved
    IN IF synced
       THEN [hook EXCEPT !.lastSaved = lastSaveTime,
                         !.hasUnsavedChanges = FALSE,
                         !.lastContentRef = newContent]
       ELSE IF tracked
       THEN [hook EXCEPT !.hasUnsavedChanges = TRUE,
                         !.lastSaved = IF hook.lastSaved = 0 THEN date
                                       ELSE hook.lastSaved]
       ELSE hook

\* nothing but the file state, the hook and (where named) viewMode changes
FileFrame ==
    UNCHANGED <<pc, slugVars, scanVars, tocVars, tokVars, outVars, scrollVars,
                viewerMounted, isScrollingSync, pendingResets, viewerScroll,
                cursor, resolved, scrollInvoked, errorRaised>>

\* the editor of ContentArea is on screen and takes input
EditorShown ==
    /\ currentFile.open
    /\ ~currentFile.isLoading
    /\ ~currentFile.error
    /\ viewMode # "viewer"

\* openFile / openFileFromHandle / openRecentFile / loadFile: the file
\* service returned the file `id` with the content it has on disk
openFile ==
    \E id \in FileIds, onDisk \in FileContents, handle \in BOOLEAN :
        LET fileState ==
                [open |-> TRUE, id |-> id, content |-> onDisk,
                 originalContent |-> onDisk, hasUnsavedChanges |-> FALSE,
                 lastSaveTime |-> 0, fileHandle |-> handle,
                 isLoading |-> FALSE, error |-> FALSE]
        IN /\ currentFile' = appReducer(currentFile,
                 [type |-> "SET_CURRENT_FILE", payload |-> fileState])
           /\ autoSave' = RunEffects(autoSave, currentFile', now)
           /\ UNCHANGED <<inFlight, now, viewMode>>
           /\ FileFrame

\* closeFile / deleteFile
closeFile ==
    /\ currentFile.open
    /\ currentFile' = appReducer(currentFile, [type |-> "CLEAR_CURRENT_FILE"])
    /\ autoSave' = RunEffects(autoSave, currentFile', now)
    /\ UNCHANGED <<inFlight, now, viewMode>>
    /\ FileFrame

\* updateFileContent(content), as the editor's onChange calls it through
\* handleContentChange: no forceUnsaved
updateFileContent ==
    \E newContent \in FileContents :
        /\ EditorShown
        /\ newContent # currentFile.content
        /\ currentFile' = appReducer(currentFile,
               [type |-> "UPDATE_FILE_CONTENT", content |-> newContent,
                forceUnsaved |-> "undefined"])
        /\ autoSave' = RunEffects(autoSave, currentFile', now)
        /\ UNCHANGED <<inFlight, now, viewMode>>
        /\ FileFrame

\* setViewMode; "split" is left out, as every test made here of viewMode
\* is the test viewMode # "viewer"
setViewMode ==
    \E mode \in {"viewer", "editor"} :
        /\ mode # viewMode
        /\ viewMode' = mode
        /\ UNCHANGED fileVars
        /\ FileFrame

\* the number of saveFile calls made so far: those that returned, each at
\* its own Date, and those in flight
SavesMade == (now - 1) + BagCardinality(inFlight)

\* saveFile up to its await: the call keeps state.currentFile as it was
\* rendered and the content it will write, and dispatches SET_FILE_LOADING
\* and SET_FILE_ERROR
SaveFileCall(auto) ==
    [file |-> currentFile, contentToSave |-> currentFile.content,
     auto |-> auto, content |-> HookContent(currentFile)]

SaveFileDispatched ==
    Dispatch(currentFile, <<[type |-> "SET_FILE_LOADING", payload |-> TRUE],
                            [type |-> "SET_FILE_ERROR", payload |-> FALSE]>>)

\* saveFile(content) called by handleSave (the Save button of the header,
\* the editor's save key) with the content on screen
saveFile ==
    /\ currentFile.open
    /\ SavesMade < MaxSaves
    /\ inFlight' = inFlight (+) SetToBag({SaveFileCall(FALSE)})
    /\ currentFile' = SaveFileDispatched
    /\ UNCHANGED <<autoSave, now, viewMode>>
    /\ FileFrame

\* the guard of triggerAutoSave
MayAutoSave(hook, state, mode) ==
    ~(~Enabled(state, mode) \/ ~hook.hasUnsavedChanges \/ hook.isAutoSaving)

\* the interval of the hook fires: triggerAutoSave up to its await.  The
\* interval exists while enabled && hasUnsavedChanges.
triggerAutoSave ==
    /\ Enabled(currentFile, viewMode)
    /\ autoSave.hasUnsavedChanges
    /\ SavesMade < MaxSaves
    /\ IF MayAutoSave(autoSave, currentFile, viewMode)
       THEN /\ autoSave' = [autoSave EXCEPT !.isAutoSaving = TRUE]
            /\ inFlight' = inFlight (+) SetToBag({SaveFileCall(TRUE)})
            /\ currentFile' = SaveFileDispatched
       ELSE UNCHANGED <<autoSave, inFlight, currentFile>>
    /\ UNCHANGED <<now, viewMode>>
    /\ FileFrame

\* triggerAutoSave after its await: onSave, which is saveFile, never
\* rejects, so the try block runs to its end whatever the save did
AfterOnSave(hook, call, date) ==
    IF call.auto
    THEN [hook EXCEPT !.lastSaved = date,
                      !.hasUnsavedChanges = FALSE,
                      !.lastContentRef = call.content,
                      !.isAutoSaving = FALSE]
    ELSE hook

\* saveFile after its await, result.success: the dispatches are made
\* against the current state, with the file and the content of the call
SavedDispatches(call, newHandle, date) ==
    (IF newHandle /\ ~call.file.fileHandle
     THEN <<[type |-> "SET_CURRENT_FILE",
             payload |-> [call.file EXCEPT !.fileHandle = TRUE]]>>
     ELSE <<>>)
    \o <<[type |-> "UPDATE_FILE_CONTENT", content |-> call.contentToSave,
          forceUnsaved |-> "false"],
         [type |-> "MARK_FILE_SAVED", payload |-> date],
         [type |-> "SET_FILE_LOADING", payload |-> FALSE]>>

\* fileService.saveFile wrote the content and returned success
SaveFileSucceeds ==
    \E call \in BagToSet(inFlight), newHandle \in BOOLEAN :
        /\ call.file.fileHandle => ~newHandle
        /\ now' = now + 1
        /\ currentFile' = Dispatch(currentFile,
                                   SavedDispatches(call, newHandle, now'))
        /\ autoSave' = RunEffects(AfterOnSave(autoSave, call, now'),
                                  currentFile', now')
        /\ inFlight' = inFlight (-) SetToBag({call})
        /\ UNCHANGED viewMode
        /\ FileFrame

\* fileService.saveFile returned success: false (the save-as dialog was
\* cancelled, or the download fallback failed): saveFile returns
SaveFileCancelled ==
    \E call \in BagToSet(inFlight) :
        /\ now' = now + 1
        /\ currentFile' = Dispatch(currentFile,
               <<[type |-> "SET_FILE_LOADING", payload |-> FALSE]>>)
        /\ autoSave' = RunEffects(AfterOnSave(autoSave, call, now'),
                                  currentFile', now')
        /\ inFlight' = inFlight (-) SetToBag({call})
        /\ UNCHANGED viewMode
        /\ FileFrame

\* fileService.saveFile threw: saveFile catches, reports and returns
SaveFileThrows ==
    \E call \in BagToSet(inFlight) :
        /\ now' = now + 1
        /\ currentFile' = Dispatch(currentFile,
               <<[type |-> "SET_FILE_ERROR", payload |-> TRUE],
                 [type |-> "SET_FILE_LOADING", payload |-> FALSE]>>)
        /\ autoSave' = RunEffects(AfterOnSave(autoSave, call, now'),
                                  currentFile', now')
        /\ inFlight' = inFlight (-) SetToBag({call})
        /\ UNCHANGED viewMode
        /\ FileFrame

NextFile ==
    \/ openFile
    \/ closeFile
    \/ updateFileContent
    \/ setViewMode
    \/ saveFile
    \/ triggerAutoSave
    \/ SaveFileSucceeds
    \/ SaveFileCancelled
    \/ SaveFileThrows

InitFile ==
    /\ pc = "app"
    /\ SlugIdle /\ ScanIdle /\ ExtIdle /\ OutIdle /\ ScrollIdle
    /\ currentFile = NoFile
    /\ inFlight = EmptyBag
    /\ autoSave = [isAutoSaving |-> FALSE, lastSaved |-> 0,
                   hasUnsavedChanges |-> FALSE, lastContentRef |-> ""]
    /\ now = 1

SpecFile == InitFile /\ [][NextFile]_vars

(***************************************************************************)
(* Unsaved-changes tracking                                                *)
(***************************************************************************)

\* C23: for a file opened or loaded from disk, hasUnsavedChanges is true
\* exactly when the current content differs from originalContent, after
\* any sequence of content edits and saves; an edit back to the original
\* content clears the flag.
C23_UnsavedIffDiffersFromOriginal ==
    currentFile.open
        => (currentFile.hasUnsavedChanges
                <=> currentFile.content # currentFile.originalContent)

\* a file from disk was saved and then edited: the flag is set
C23_Witness ==
    /\ currentFile.open
    /\ currentFile.lastSaveTime # 0
    /\ currentFile.hasUnsavedChanges
    /\ inFlight = EmptyBag

\* C23, the meaning of originalContent: the originalContent of a file from
\* disk changes only to the content just loaded or just written
C23_OriginalIsLoadedOrSaved ==
    [][(currentFile'.open
            /\ currentFile'.originalContent # currentFile.originalContent)
        => /\ currentFile'.originalContent = currentFile'.content
           /\ \/ inFlight' = inFlight
              \/ \E call \in BagToSet(inFlight) :
                    /\ inFlight' = inFlight (-) SetToBag({call})
                    /\ currentFile'.content = call.contentToSave]_vars

(***************************************************************************)
(* A save that completes after the state has moved on                      *)
(***************************************************************************)

\* the step is the completion of the saveFile call `call`
Completes(call) ==
    /\ call \in BagToSet(inFlight)
    /\ inFlight' = inFlight (-) SetToBag({call})

\* C30: a completing save never loses or misplaces content: whatever was
\* edited or opened while saveFile awaited the file service, the completion
\* leaves the current file and its content as they are, and it clears
\* hasUnsavedChanges only if the current content is what was written to
\* the current file.
C30_CompletingSaveKeepsContent ==
    [][\A call \in BagToSet(inFlight) :
          (Completes(call) /\ currentFile.open)
              => (/\ currentFile'.open
                  /\ currentFile'.id = currentFile.id
                  /\ currentFile'.content = currentFile.content
                  /\ (currentFile.hasUnsavedChanges
                          /\ ~currentFile'.hasUnsavedChanges)
                       => (/\ call.file.id = currentFile'.id
                           /\ call.contentToSave = currentFile'.content))]_vars

\* C30, the case with nothing in between: a save that completes with the
\* file and the content it was called with leaves both as they are
C30_UndisturbedSaveKeepsContent ==
    [][\A call \in BagToSet(inFlight) :
          (/\ Completes(call)
           /\ currentFile.open
           /\ currentFile.id = call.file.id
           /\ currentFile.content = call.contentToSave)
              => (/\ currentFile'.open
                  /\ currentFile'.id = currentFile.id
                  /\ currentFile'.content = currentFile.content)]_vars

(***************************************************************************)
(* Auto-save                                                               *)
(***************************************************************************)

\* the saveFile calls in flight that triggerAutoSave made
AutoSavesInFlight(bag) ==
    BagCardinality([call \in {c \in BagToSet(bag) : c.auto} |-> bag[call]])

\* the step is the completion of an auto-save whose save was written
\* (MARK_FILE_SAVED carries the Date of the step)
AutoSaveSucceeded(call) ==
    /\ Completes(call)
    /\ call.auto
    /\ currentFile.open
    /\ currentFile'.lastSaveTime = now'

\* the step is the completion of an auto-save whose save was not written
AutoSaveFailed(call) ==
    /\ Completes(call)
    /\ call.auto
    /\ currentFile.open
    /\ currentFile'.lastSaveTime # now'

\* C24, first half: triggerAutoSave calls onSave only when auto-save is
\* enabled, the hook has unsaved changes and no auto-save is in progress;
\* at most one auto-save is in flight.
C24_AutoSaveGuarded ==
    [][/\ AutoSavesInFlight(inFlight') > AutoSavesInFlight(inFlight)
            => (/\ Enabled(currentFile, viewMode)
                /\ autoSave.hasUnsavedChanges
                /\ ~autoSave.isAutoSaving)
       /\ AutoSavesInFlight(inFlight') <= 1
       /\ AutoSavesInFlight(inFlight') = 1 <=> autoSave'.isAutoSaving]_vars

\* C24, second half for a save that was written: the hook's
\* hasUnsavedChanges is false and isAutoSaving is false again.
C24_SuccessClearsFlag ==
    [][\A call \in BagToSet(inFlight) :
          AutoSaveSucceeded(call)
              => (/\ ~autoSave'.hasUnsavedChanges
                  /\ ~autoSave'.isAutoSaving)]_vars

\* C24: triggerAutoSave calls onSave only under its guard, so at most one
\* auto-save is in flight; after a successful auto-save hasUnsavedChanges
\* is false, and after a failed one it remains true and isAutoSaving
\* returns to false.
C24_AutoSaveGuardedAndSettled ==
    [][/\ AutoSavesInFlight(inFlight') > AutoSavesInFlight(inFlight)
            => (/\ Enabled(currentFile, viewMode)
                /\ autoSave.hasUnsavedChanges
                /\ ~autoSave.isAutoSaving)
       /\ AutoSavesInFlight(inFlight') <= 1
       /\ \A call \in BagToSet(inFlight) :
             /\ AutoSaveSucceeded(call)
                   => (/\ ~autoSave'.hasUnsavedChanges
                       /\ ~autoSave'.isAutoSaving)
             /\ AutoSaveFailed(call)
                   => (/\ autoSave'.hasUnsavedChanges
                           = autoSave.hasUnsavedChanges
                       /\ ~autoSave'.isAutoSaving)]_vars

\* C24, what the hook does after a failed save: it takes the save for
\* written, as saveFile returns normally whatever the file service did
\* (unless the content on screen is no longer the content of the call)
C24_FailureClearsFlag ==
    [][\A call \in BagToSet(inFlight) :
          (AutoSaveFailed(call) /\ HookContent(currentFile') = call.content)
              => (/\ ~autoSave'.hasUnsavedChanges
                  /\ autoSave'.lastSaved = now'
                  /\ ~autoSave'.isAutoSaving)]_vars

(***************************************************************************)
(* Scroll synchronisation in both directions                               *)
(* (src/src/components/ContentArea.tsx): the cursor handler above, the     *)
(* viewer's scroll handler and the timers that reset isScrollingSyncRef.   *)
(*                                                                         *)
(* A scroll position is a fraction <<numerator, denominator>> in lowest    *)
(* terms, as the handler computes it by a division.                        *)
(***************************************************************************)
MaxScroll == 2    \* largest scroll offset and scroll range of an event

RECURSIVE GCD(_, _)
GCD(a, b) == IF b = 0 THEN a ELSE GCD(b, a % b)

Fraction(n, d) ==
    IF n = 0 THEN <<0, 1>> ELSE <<n \div GCD(n, d), d \div GCD(n, d)>>

\* the value assigned to editorElement.scrollTop: maxScroll is
\* scrollHeight - clientHeight of the viewer
TargetScroll(scrollTop, maxScroll, editorMaxScroll) ==
    IF maxScroll > 0
    THEN IF scrollTop >= maxScroll
         THEN Fraction(editorMaxScroll, 1)
         ELSE Fraction(editorMaxScroll * scrollTop, maxScroll)
    ELSE Fraction(0, 1)

\* the early return of handleViewerScroll without the test of the flag
ViewerScrollIgnoredUnlessFlag(flag, mode, mounted) ==
    mode # "split" \/ ~mounted

\* the early return of handleViewerScroll
ViewerScrollIgnored(flag, mode, mounted) ==
    flag \/ mode # "split" \/ ~mounted

\* a finally block that is skipped when the try block throws
ResetsScheduledUnlessThrown(outcome) == IF outcome = "throws" THEN 0 ELSE 1

\* the finally block of handleViewerScroll: one setTimeout, whatever the
\* try block did
ResetsScheduled(outcome) == 1

\* one scroll event of the viewer; `outcome` is what the editor's element
\* does: its scrollTop is assigned, it has no scrollHeight, or reading it
\* throws
handleViewerScroll ==
    /\ pc = "sync"
    /\ \E scrollTop \in 0..MaxScroll, maxScroll \in 0..MaxScroll,
          editorMaxScroll \in 0..MaxScroll,
          outcome \in {"assigned", "noElement", "throws"} :
          IF ViewerScrollIgnored(isScrollingSync, viewMode, editorMounted)
          THEN /\ viewerEvent' = "ignored"
               /\ UNCHANGED <<isScrollingSync, pendingResets, editorScroll>>
          ELSE /\ isScrollingSync' = TRUE
               /\ editorScroll' =
                      IF outcome = "assigned"
                      THEN TargetScroll(scrollTop, maxScroll, editorMaxScroll)
                      ELSE editorScroll
               /\ viewerEvent' = outcome
               /\ pendingResets' = pendingResets + ResetsScheduled(outcome)
    /\ UNCHANGED <<pc, slugVars, scanVars, tocVars, tokVars, outVars, fileVars,
                   editorMounted, viewMode, viewerMounted, viewerScroll,
                   cursor, resolved, scrollInvoked, errorRaised>>

NextScroll ==
    \/ handleCursorPositionChange
    \/ handleViewerScroll
    \/ ResetTimerFires

\* the files shown while the views are scrolled: none, a header, a header
\* and a body line, a body line only
ScrollDocs ==
    { <<>>,
      <<"#", " ", "a">>,
      <<"#", " ", "a", "\n", "a">>,
      <<"a">> }

InitScroll ==
    /\ OutIdle /\ FileIdle
    /\ pc = "sync"
    /\ content \in ScrollDocs
    /\ headerIds = precomputeHeaderIds(content)
    /\ lines = <<>>
    /\ i = 0
    /\ inFencedCodeBlock = FALSE
    /\ fencePattern = ""
    /\ headers = <<>>
    /\ headerLine = <<>>
    /\ usedIds = {}
    /\ producedIds = <<>>
    /\ k = 0
    /\ SlugIdle
    /\ TocIdle
    /\ TokIdle
    /\ viewMode \in {"viewer", "editor", "split"}
    /\ viewerMounted \in BOOLEAN
    /\ editorMounted \in BOOLEAN
    /\ editorScroll = <<0, 1>>
    /\ viewerEvent = "none"
    /\ isScrollingSync = FALSE
    /\ pendingResets = 0
    /\ viewerScroll = Nothing
    /\ cursor = 0
    /\ resolved = Nothing
    /\ scrollInvoked = FALSE
    /\ errorRaised = FALSE

SpecScroll == InitScroll /\ [][NextScroll]_vars

\* timers fire: a callback given to setTimeout is eventually run
SpecScrollFair == SpecScroll /\ WF_vars(ResetTimerFires)

\* C25: no feedback loop.  While the flag is set a viewer scroll event
\* does not change the editor's scroll and a cursor event does not scroll
\* the viewer; the flag is set only by a handler that found it clear, so
\* at most one reset timer is pending, and it is pending exactly while the
\* flag is set: no timer of an earlier sync is left to clear the flag of a
\* later one.
C25_NoFeedbackLoop ==
    [][/\ isScrollingSync
            => (editorScroll' = editorScroll /\ viewerScroll' = viewerScroll)
       /\ pendingResets' > pendingResets
            => (~isScrollingSync /\ isScrollingSync')
       /\ pendingResets' <= 1
       /\ isScrollingSync' <=> pendingResets' = 1]_vars

\* the flag is set, and both a cursor event and a viewer scroll event
\* arrived and were ignored
C25_Witness ==
    /\ isScrollingSync
    /\ viewMode = "split" /\ viewerMounted /\ editorMounted
    /\ cursor # 0 /\ resolved = Nothing
    /\ viewerEvent = "ignored"

\* C26: every time the flag is set a reset is scheduled, and the flag
\* eventually returns to false, also when the target element does not
\* exist or the scroll throws.
C26_FlagEventuallyReset ==
    /\ [][(isScrollingSync' /\ ~isScrollingSync)
             => pendingResets' = pendingResets + 1]_vars
    /\ isScrollingSync ~> ~isScrollingSync

\* the flag is set by an event whose target does not exist or whose scroll
\* threw
C26_Witness ==
    /\ isScrollingSync
    /\ \/ errorRaised
       \/ viewerEvent \in {"noElement", "throws"}
       \/ (resolved \notin {Nothing, NoSection} /\ ~scrollInvoked)

(***************************************************************************)
(* The resolver against the extractor and the ids of the precompute pass   *)
(***************************************************************************)

\* the lines (1-based) at which extractMarkdownHeaders pushes a header, in
\* order: the for loop from line idx on
RECURSIVE ExtractedLinesFrom(_, _, _, _)
ExtractedLinesFrom(ls, idx, inFence, pattern) ==
    IF idx > Len(ls) THEN <<>>
    ELSE LET r == ScanStep(ls[idx], inFence, pattern)
         IN  (IF r.push THEN <<idx>> ELSE <<>>)
                 \o ExtractedLinesFrom(ls, idx + 1, r.inFence, r.pattern)

\* the ids generateUniqueSlug returns in the forEach of precomputeHeaderIds,
\* in order
RECURSIVE ProducedIdsFrom(_, _, _)
ProducedIdsFrom(hs, idx, used) ==
    IF idx > Len(hs) THEN <<>>
    ELSE LET r == generateUniqueSlug(hs[idx], used)
         IN  <<r.id>> \o ProducedIdsFrom(hs, idx + 1, r.ids)

\* how many headers the extractor takes from the lines at or above the
\* caret: the nearest genuine header at or above the caret is the
\* HeadersUpTo(pos)-th header of the document
HeadersUpTo(pos) ==
    LET genuine == ExtractedLinesFrom(Split(content), 1, FALSE, "")
    IN  Cardinality({n \in 1..Len(genuine) : genuine[n] <= LineOfCaret(pos) + 1})

\* C27: the resolver and the extractor agree on what a header line is: the
\* resolver yields the id the map holds for the text of the nearest line
\* at or above the caret that the extractor takes for a header, and none
\* when the extractor takes no header from these lines.
C27_ResolverAgreesWithExtractor ==
    ResolverRan =>
        LET texts == extractMarkdownHeaders(Split(content))
            n == HeadersUpTo(cursor)
        IN  resolved = IF n = 0 THEN NoSection ELSE headerIds[texts[n]]

\* C27 for documents in which every line matching the header pattern is a
\* header for the extractor and the other way round
C27_AgreesWhenHeaderLinesAreTheSame ==
    (/\ ResolverRan
     /\ \A j \in 1..Len(Split(content)) :
           MatchesHeaderPattern(Split(content)[j])
               <=> \E n \in 1..HeadersUpTo(Len(content)) :
                      ExtractedLinesFrom(Split(content), 1, FALSE, "")[n] = j)
        => LET texts == extractMarkdownHeaders(Split(content))
               n == HeadersUpTo(cursor)
           IN  resolved = IF n = 0 THEN NoSection ELSE headerIds[texts[n]]

\* C28: each header occurrence keeps its own slug through resolution: when
\* the nearest genuine header at or above the caret is the k-th header of
\* the document, the resolver yields the id generateUniqueSlug produced
\* for the k-th header in the precompute pass.
C28_OccurrenceKeepsItsSlug ==
    (ResolverRan /\ HeadersUpTo(cursor) > 0) =>
        resolved = ProducedIdsFrom(extractMarkdownHeaders(Split(content)),
                                   1, {})[HeadersUpTo(cursor)]

\* C28 for documents without a repeated header text, and in which the
\* resolver and the extractor take the same lines for headers
C28_KeepsItsSlugWhenTextsDiffer ==
    (/\ ResolverRan
     /\ HeadersUpTo(cursor) > 0
     /\ LET texts == extractMarkdownHeaders(Split(content))
        IN  \A x, y \in 1..Len(texts) : x # y => texts[x] # texts[y]
     /\ \A j \in 1..Len(Split(content)) :
           MatchesHeaderPattern(Split(content)[j])
               <=> \E n \in 1..HeadersUpTo(Len(content)) :
                      ExtractedLinesFrom(Split(content), 1, FALSE, "")[n] = j)
        => resolved = ProducedIdsFrom(extractMarkdownHeaders(Split(content)),
                                      1, {})[HeadersUpTo(cursor)]

\* C29: the ids of the nodes of the table of contents are pairwise
\* distinct.
C29_TocIdsDistinct ==
    pc = "done" =>
        \A x, y \in 1..Len(flattened) :
            x # y => flattened[x].id # flattened[y].id

\* C29 for documents without a repeated header text
C29_TocIdsDistinctWhenTextsDiffer ==
    (/\ pc = "done"
     /\ \A x, y \in 1..Len(flattened) :
           x # y => flattened[x].text # flattened[y].text)
        => \A x, y \in 1..Len(flattened) :
               x # y => flattened[x].id # flattened[y].id

====
